---- MODULE Spec2Model ----
(***************************************************************************)
(* A model of the chunking core of rag/nlp/__init__.py and of the position *)
(* tag codec of deepdoc/parser/mineru_parser.py.                           *)
(*                                                                         *)
(* Texts are sequences of characters.  A character is a one-character      *)
(* string ("a", "\n", "\t", "@", ...); the few characters that cannot be   *)
(* written in a TLA+ string literal are named: BQ is the backtick, and a   *)
(* CJK character is written by its code point ("U3002" is the ideographic  *)
(* full stop).  Python's None is the string "None".                        *)
(*                                                                         *)
(* The functions of the source are pure; each family is exercised by its   *)
(* own specification (SpecMerge, SpecTree, SpecCtx, SpecBullets, SpecImg,  *)
(* SpecTag), whose Init draws the inputs from bounded sets and whose       *)
(* actions step through the function's loop.  The variables of the other   *)
(* families stay at their idle values.                                     *)
(***************************************************************************)
EXTENDS Integers, Sequences, FiniteSets, TLC

VARIABLES
    \* the position in the function that is running
    pc,
    \* naive_merge
    sections, chunk_token_num, delimiter, overlapped_percent, cks, tk_nums,
    sec_i,
    \* Node.build_tree and Node.get_tree
    lines, depth, nodes, stack, line_i, tree_list,
    \* attach_media_context: chunks0 is the list as it was passed in
    chunks0, chunks, table_context_size, image_context_size, ordered_indices,
    positioned, sorted_pos, prev_ctx, next_ctx,
    \* bullets_category
    sample, hits, style_i, maximum, res,
    \* concat_img
    img1, img2, img_out, img_round,
    \* MinerUParser: _line_tag, extract_positions and crop
    boxes, page_images, page_from, section0, section, tag_text, box_i, found,
    cropped,
    \* naive_merge_with_images
    wi_texts, wi_images, wi_chunk_token_num, wi_delimiter,
    wi_overlapped_percent, wi_cks, wi_result_images, wi_tk_nums, wi_i,
    \* title_frequency, tree_merge and hierarchical_merge
    bull, lv_sections, lv_depth, tf_result, kept, lv_i, tm_lines, tm_result, hm_levels, hm_cks, hm_result,
    \* hierarchical_merge, one group at a time
    hi_k, hi_texts, hi_res, hi_num, hi_g

mergeVars == <<sections, chunk_token_num, delimiter, overlapped_percent, cks,
               tk_nums, sec_i>>
treeVars == <<lines, depth, nodes, stack, line_i, tree_list>>

ctxVars == <<chunks0, chunks, table_context_size, image_context_size,
             ordered_indices, positioned, sorted_pos, prev_ctx, next_ctx>>

bulletVars == <<sample, hits, style_i, maximum, res>>

imgVars == <<img1, img2, img_out, img_round>>

tagVars == <<boxes, page_images, page_from, section0, section, tag_text,
             box_i, found, cropped>>

withImagesVars == <<wi_texts, wi_images, wi_chunk_token_num, wi_delimiter, wi_overlapped_percent, wi_cks, wi_result_images, wi_tk_nums, wi_i>>

levelVars == <<bull, lv_sections, lv_depth, tf_result, kept, lv_i, tm_lines, tm_result, hm_levels, hm_cks, hm_result>>

hierVars == <<hi_k, hi_texts, hi_res, hi_num, hi_g>>

vars == <<pc, mergeVars, treeVars, ctxVars, bulletVars, imgVars, tagVars, withImagesVars, levelVars, hierVars>>

\* the variables a family leaves alone
notMergeVars == <<treeVars, ctxVars, bulletVars, imgVars, tagVars, withImagesVars, levelVars, hierVars>>
notTreeVars == <<mergeVars, ctxVars, bulletVars, imgVars, tagVars, withImagesVars, levelVars, hierVars>>
notCtxVars == <<mergeVars, treeVars, bulletVars, imgVars, tagVars, withImagesVars, levelVars, hierVars>>
notBulletVars == <<mergeVars, treeVars, ctxVars, imgVars, tagVars, withImagesVars, levelVars, hierVars>>
notImgVars == <<mergeVars, treeVars, ctxVars, bulletVars, tagVars, withImagesVars, levelVars, hierVars>>
notTagVars == <<mergeVars, treeVars, ctxVars, bulletVars, imgVars, withImagesVars, levelVars, hierVars>>
notWithImagesVars == <<mergeVars, treeVars, ctxVars, bulletVars, imgVars, tagVars, levelVars, hierVars>>
notLevelVars == <<mergeVars, treeVars, ctxVars, bulletVars, imgVars, tagVars, withImagesVars, hierVars>>
notHierVars == <<mergeVars, treeVars, ctxVars, bulletVars, imgVars, tagVars, withImagesVars, levelVars>>

\* the values of a family's variables while another family runs
MergeIdle ==
    /\ sections = <<>>
    /\ chunk_token_num = 0
    /\ delimiter = <<>>
    /\ overlapped_percent = 0
    /\ cks = <<>>
    /\ tk_nums = <<>>
    /\ sec_i = 0

TreeIdle ==
    /\ lines = <<>>
    /\ depth = 0
    /\ nodes = <<>>
    /\ stack = <<>>
    /\ line_i = 0
    /\ tree_list = <<>>

CtxIdle ==
    /\ chunks0 = <<>>
    /\ chunks = <<>>
    /\ table_context_size = 0
    /\ image_context_size = 0
    /\ ordered_indices = <<>>
    /\ positioned = FALSE
    /\ sorted_pos = 0
    /\ prev_ctx = <<>>
    /\ next_ctx = <<>>

BulletIdle ==
    /\ sample = <<>>
    /\ hits = <<>>
    /\ style_i = 0
    /\ maximum = 0
    /\ res = 0

\* no image: Python's None where an image is expected
NoImage == [id |-> 0, size |-> <<0, 0>>, px |-> <<>>]

ImgIdle ==
    /\ img1 = NoImage
    /\ img2 = NoImage
    /\ img_out = NoImage
    /\ img_round = 0

\* what extract_positions gives: the list of positions, or an exception
NotExtracted == [raised |-> FALSE, poss |-> <<>>]
\* what crop(text, need_position=True) gives: the pair (None, None), an
\* exception, or a picture with the positions of its parts
CropNone == [kind |-> "none", size |-> <<0, 0>>, parts |-> <<>>,
             positions |-> <<>>]
CropRaised == [kind |-> "raised", size |-> <<0, 0>>, parts |-> <<>>,
               positions |-> <<>>]

TagIdle ==
    /\ boxes = <<>>
    /\ page_images = <<>>
    /\ page_from = 0
    /\ section0 = <<>>
    /\ section = <<>>
    /\ tag_text = <<>>
    /\ box_i = 0
    /\ found = NotExtracted
    /\ cropped = CropNone

WithImagesIdle ==
    /\ wi_texts = <<>>
    /\ wi_images = <<>>
    /\ wi_chunk_token_num = 0
    /\ wi_delimiter = <<>>
    /\ wi_overlapped_percent = 0
    /\ wi_cks = <<>>
    /\ wi_result_images = <<>>
    /\ wi_tk_nums = <<>>
    /\ wi_i = 0

\* what tree_merge gives: the list it was passed, a list of chunks, or an
\* exception
NotReturned == [kind |-> "none", sections |-> <<>>, chunks |-> <<>>]

LevelIdle ==
    /\ bull = -1
    /\ lv_sections = <<>>
    /\ lv_depth = 0
    /\ tf_result = <<0, <<>>>>
    /\ kept = <<>>
    /\ lv_i = 0
    /\ tm_lines = <<>>
    /\ tm_result = NotReturned
    /\ hm_levels = <<>>
    /\ hm_cks = <<>>
    /\ hm_result = <<>>

HierIdle ==
    /\ hi_k = 0
    /\ hi_texts = <<>>
    /\ hi_res = <<>>
    /\ hi_num = <<>>
    /\ hi_g = 0

\* a family runs with every other family idle
MergeAlone == TreeIdle /\ CtxIdle /\ BulletIdle /\ ImgIdle /\ TagIdle /\ WithImagesIdle /\ LevelIdle /\ HierIdle
TreeAlone == MergeIdle /\ CtxIdle /\ BulletIdle /\ ImgIdle /\ TagIdle /\ WithImagesIdle /\ LevelIdle /\ HierIdle
CtxAlone == MergeIdle /\ TreeIdle /\ BulletIdle /\ ImgIdle /\ TagIdle /\ WithImagesIdle /\ LevelIdle /\ HierIdle
BulletAlone == MergeIdle /\ TreeIdle /\ CtxIdle /\ ImgIdle /\ TagIdle /\ WithImagesIdle /\ LevelIdle /\ HierIdle
ImgAlone == MergeIdle /\ TreeIdle /\ CtxIdle /\ BulletIdle /\ TagIdle /\ WithImagesIdle /\ LevelIdle /\ HierIdle
TagAlone == MergeIdle /\ TreeIdle /\ CtxIdle /\ BulletIdle /\ ImgIdle /\ WithImagesIdle /\ LevelIdle /\ HierIdle
WithImagesAlone == MergeIdle /\ TreeIdle /\ CtxIdle /\ BulletIdle /\ ImgIdle /\ TagIdle /\ LevelIdle /\ HierIdle
LevelAlone == MergeIdle /\ TreeIdle /\ CtxIdle /\ BulletIdle /\ ImgIdle /\ TagIdle /\ WithImagesIdle /\ HierIdle
HierAlone == MergeIdle /\ TreeIdle /\ CtxIdle /\ BulletIdle /\ ImgIdle /\ TagIdle /\ WithImagesIdle /\ LevelIdle

---------------------------------------------------------------------------
\* Characters and strings

None == "None"
BQ == "BACKTICK"
Digits == {"0", "1", "2", "3", "4", "5", "6", "7", "8", "9"}


\* s[from0:] of Python, from0 a zero-based offset within 0..len(s)
SliceFrom(s, from0) == SubSeq(s, from0 + 1, Len(s))

\* whether pat occurs in s at the one-based position i
StartsAt(s, i, pat) ==
    /\ i + Len(pat) - 1 <= Len(s)
    /\ \A k \in 1..Len(pat) : s[i + k - 1] = pat[k]

\* str.find: the lowest zero-based index of pat in s, or -1
Find(s, pat) ==
    LET at == {i \in 1..(Len(s) + 1) : StartsAt(s, i, pat)}
    IN  IF at = {} THEN -1
        ELSE (CHOOSE i \in at : \A j \in at : i <= j) - 1

RECURSIVE Flatten(_)
Flatten(ss) == IF ss = <<>> THEN <<>> ELSE Head(ss) \o Flatten(Tail(ss))

\* sep.join(parts)
RECURSIVE Join(_, _)
Join(parts, sep) ==
    IF parts = <<>> THEN <<>>
    ELSE IF Len(parts) = 1 THEN parts[1]
    ELSE parts[1] \o sep \o Join(Tail(parts), sep)

---------------------------------------------------------------------------
\* Collaborators of the chunking core

\* common.token_utils.num_tokens_from_string: a deterministic token count;
\* the model counts one token per character.
num_tokens_from_string(s) == Len(s)

\* The characters of the class [\t0-9.-] of RAGFlowPdfParser.remove_tag
TagBodyChars == Digits \cup {"\t", ".", "-"}

\* length of the longest run of characters of cls in s from position i on
RECURSIVE RunLen(_, _, _)
RunLen(s, i, cls) ==
    IF i > Len(s) \/ s[i] \notin cls THEN 0 ELSE 1 + RunLen(s, i + 1, cls)

\* position of the last character of a match of @@[\t0-9.-]+?## that starts
\* at i, or 0: "#" is not in the class, so the only candidate end is right
\* after the whole run.
TagEnd(s, i) ==
    LET run == RunLen(s, i + 2, TagBodyChars)
    IN  IF /\ StartsAt(s, i, <<"@", "@">>)
           /\ run >= 1
           /\ StartsAt(s, i + 2 + run, <<"#", "#">>)
        THEN i + 3 + run
        ELSE 0

RECURSIVE RemoveTagFrom(_, _)
RemoveTagFrom(s, i) ==
    IF i > Len(s) THEN <<>>
    ELSE IF TagEnd(s, i) > 0 THEN RemoveTagFrom(s, TagEnd(s, i) + 1)
    ELSE <<s[i]>> \o RemoveTagFrom(s, i + 1)

\* RAGFlowPdfParser.remove_tag: re.sub(r"@@[\t0-9.-]+?##", "", txt)
remove_tag(txt) == RemoveTagFrom(txt, 1)

---------------------------------------------------------------------------
\* naive_merge

\* the test of add_chunk that opens a new chunk:
\* cks[-1] == "" or tk_nums[-1] > chunk_token_num * (100 - overlapped_percent)/100.
NeedNewChunkLoose(last, tk, ctn, p) ==
    last = <<>> \/ tk * 100 > (ctn + 1) * (100 - p)

NeedNewChunk(last, tk, ctn, p) ==
    last = <<>> \/ tk * 100 > ctn * (100 - p)

\* int(len(overlapped)*(100-overlapped_percent)/100.)
OverlapStartNone(len, p) == len

OverlapStartComplement(len, p) == (len * p) \div 100

OverlapStart(len, p) == (len * (100 - p)) \div 100

\* the carry-over of a new chunk: overlapped[int(len(overlapped)*(100-p)/100.):]
OverlappedWhole(last, p) == remove_tag(last)

Overlapped(last, p) ==
    LET overlapped == remove_tag(last)
    IN  SliceFrom(overlapped, OverlapStart(Len(overlapped), p))

\* add_chunk(t, pos): the pair <<cks, tk_nums>> after the call
add_chunk(cs, tks, t, pos0, ctn, p) ==
    LET tnum == num_tokens_from_string(t)
        pos == IF tnum < 8 THEN <<>> ELSE pos0
        last == cs[Len(cs)]
    IN  IF NeedNewChunk(last, tks[Len(tks)], ctn, p)
        THEN LET t2 == Overlapped(last, p) \o t
                 t3 == IF Find(t2, pos) < 0 THEN t2 \o pos ELSE t2
             IN  <<Append(cs, t3), Append(tks, tnum)>>
        ELSE LET t2 == IF Find(last, pos) < 0 THEN t \o pos ELSE t
             IN  <<[cs EXCEPT ![Len(cs)] = @ \o t2],
                   [tks EXCEPT ![Len(tks)] = @ + tnum]>>

\* [m.group(1) for m in re.finditer(r"`([^`]+)`", delimiter)], as a set
RECURSIVE CustomDelimitersFrom(_, _)
CustomDelimitersFrom(d, i) ==
    IF i > Len(d) THEN {}
    ELSE LET run == RunLen(d, i + 1, {d[k] : k \in 1..Len(d)} \ {BQ})
         IN  IF d[i] = BQ /\ run >= 1 /\ StartsAt(d, i + 1 + run, <<BQ>>)
             THEN {SubSeq(d, i + 1, i + run)}
                      \cup CustomDelimitersFrom(d, i + 2 + run)
             ELSE CustomDelimitersFrom(d, i + 1)

custom_delimiters(d) == CustomDelimitersFrom(d, 1)

\* the literal of custom_pattern that matches at position i: the alternation
\* lists the literals longest first, so the longest one that fits is taken;
\* <<>> when none fits
MatchAt(s, i, D) ==
    LET fit == {d \in D : StartsAt(s, i, d)}
    IN  IF fit = {} THEN <<>>
        ELSE CHOOSE d \in fit : \A e \in fit : Len(e) <= Len(d)

\* re.split(r"(%s)" % custom_pattern, sec): texts and delimiters alternate
RECURSIVE SplitFrom(_, _, _, _)
SplitFrom(s, i, cur, D) ==
    IF i > Len(s) THEN <<cur>>
    ELSE LET m == MatchAt(s, i, D)
         IN  IF m # <<>>
             THEN <<cur, m>> \o SplitFrom(s, i + Len(m), <<>>, D)
             ELSE SplitFrom(s, i + 1, Append(cur, s[i]), D)

re_split(sec, D) == SplitFrom(sec, 1, <<>>, D)

\* re.fullmatch(custom_pattern, sub_sec or ""): the delimiters are skipped
IsDelimiterKeepAll(sub_sec, D) == FALSE

IsDelimiter(sub_sec, D) == sub_sec \in D

\* the chunk the custom mode makes of one sub_sec
CustomChunk(sub_sec, pos) ==
    LET text == <<"\n">> \o sub_sec
        local_pos == IF num_tokens_from_string(text) < 8 THEN <<>> ELSE pos
    IN  IF local_pos # <<>> /\ Find(text, local_pos) < 0
        THEN text \o local_pos
        ELSE text

RECURSIVE CustomChunks(_, _, _)
CustomChunks(split_sec, pos, D) ==
    IF split_sec = <<>> THEN <<>>
    ELSE (IF IsDelimiter(Head(split_sec), D) THEN <<>>
          ELSE <<CustomChunk(Head(split_sec), pos)>>)
         \o CustomChunks(Tail(split_sec), pos, D)

RECURSIVE TokenCounts(_)
TokenCounts(cs) ==
    IF cs = <<>> THEN <<>>
    ELSE <<num_tokens_from_string(Head(cs))>> \o TokenCounts(Tail(cs))

---------------------------------------------------------------------------
\* The inputs of naive_merge

MaxSections == 3

\* "@@1\t1.0\t2.0\t3.0\t4.0##"
TagA == <<"@", "@", "1", "\t", "1", ".", "0", "\t", "2", ".", "0", "\t",
          "3", ".", "0", "\t", "4", ".", "0", "#", "#">>

\* (text, position tag) pairs; the tag is "" for a plain string section
SectionPool ==
    { [text |-> <<"a">>, pos |-> <<>>],
      [text |-> <<"b", "c", ".">>, pos |-> <<>>],
      [text |-> <<"d", "e", "f", "g", "h", "i", "j">>, pos |-> TagA],
      [text |-> <<"a", "\n", "\n", "b", "\n", "\n", "c">>, pos |-> <<>>],
      [text |-> <<"k", "\n", "\n", "l", "m", "n", "o", "p", "q", "r">>,
       pos |-> TagA] }

\* the default "\n。；！？", "`\n\n`" and "`\n\n``b`"
DelimiterPool ==
    { <<"\n", "U3002", "UFF1B", "UFF01", "UFF1F">>,
      <<BQ, "\n", "\n", BQ>>,
      <<BQ, "\n", "\n", BQ, BQ, "b", BQ>> }

ChunkTokenNums == {1, 4, 12}
OverlappedPercents == {0, 30, 50}

SeqsUpTo(S, n) == UNION {[1..k -> S] : k \in 0..n}

---------------------------------------------------------------------------
\* naive_merge as a state machine: one step per input section

MergeInit ==
    /\ sections \in SeqsUpTo(SectionPool, MaxSections)
    /\ chunk_token_num \in ChunkTokenNums
    /\ delimiter \in DelimiterPool
    /\ overlapped_percent \in OverlappedPercents
    /\ cks = <<>>
    /\ tk_nums = <<>>
    /\ sec_i = 0
    /\ pc = "naive_merge"
    /\ MergeAlone

has_custom == custom_delimiters(delimiter) # {}

\* entry: the empty input returns [], otherwise cks and tk_nums are set up
\* for the mode the delimiter selects
NaiveMergeEnter ==
    /\ pc = "naive_merge"
    /\ IF sections = <<>>
       THEN /\ pc' = "done"
            /\ UNCHANGED <<cks, tk_nums, sec_i>>
       ELSE /\ pc' = IF has_custom THEN "custom" ELSE "default"
            /\ cks' = IF has_custom THEN <<>> ELSE << <<>> >>
            /\ tk_nums' = IF has_custom THEN <<>> ELSE <<0>>
            /\ sec_i' = 1
    /\ UNCHANGED <<sections, chunk_token_num, delimiter, overlapped_percent>>
    /\ UNCHANGED notMergeVars

\* for sec, pos in sections: add_chunk("\n"+sec, pos)
AddChunkStep ==
    /\ pc = "default"
    /\ sec_i <= Len(sections)
    /\ LET r == add_chunk(cks, tk_nums, <<"\n">> \o sections[sec_i].text,
                          sections[sec_i].pos, chunk_token_num,
                          overlapped_percent)
       IN  /\ cks' = r[1]
           /\ tk_nums' = r[2]
    /\ sec_i' = sec_i + 1
    /\ UNCHANGED <<sections, chunk_token_num, delimiter, overlapped_percent, pc>>
    /\ UNCHANGED notMergeVars

\* the body of the custom-delimiter loop for one section
CustomSplitStep ==
    /\ pc = "custom"
    /\ sec_i <= Len(sections)
    /\ LET D == custom_delimiters(delimiter)
           new == CustomChunks(re_split(sections[sec_i].text, D),
                               sections[sec_i].pos, D)
       IN  /\ cks' = cks \o new
           /\ tk_nums' = tk_nums \o TokenCounts(new)
    /\ sec_i' = sec_i + 1
    /\ UNCHANGED <<sections, chunk_token_num, delimiter, overlapped_percent, pc>>
    /\ UNCHANGED notMergeVars

\* return cks
NaiveMergeReturn ==
    /\ pc \in {"default", "custom"}
    /\ sec_i > Len(sections)
    /\ pc' = "done"
    /\ UNCHANGED <<sections, chunk_token_num, delimiter, overlapped_percent,
                   cks, tk_nums, sec_i>>
    /\ UNCHANGED notMergeVars

MergeNext ==
    \/ NaiveMergeEnter
    \/ AddChunkStep
    \/ CustomSplitStep
    \/ NaiveMergeReturn

SpecMerge == MergeInit /\ [][MergeNext]_vars

---------------------------------------------------------------------------
\* Claims about naive_merge

LastTk == tk_nums[Len(tk_nums)]

\* C1: in default mode with overlapped_percent = 0, a running chunk whose
\* accumulated token count exceeds chunk_token_num never receives another
\* input: the step that handles the next input leaves every existing chunk
\* as it is and opens a new one, so the count a chunk had before its last
\* appended input is at most chunk_token_num.
C1_BudgetRespect ==
    [][(/\ pc = "default"
        /\ overlapped_percent = 0
        /\ sec_i' = sec_i + 1
        /\ LastTk > chunk_token_num)
       => (/\ Len(cks') = Len(cks) + 1
           /\ SubSeq(cks', 1, Len(cks)) = cks
           /\ SubSeq(tk_nums', 1, Len(tk_nums)) = tk_nums)]_vars

\* a chunk that took two inputs was closed above the budget and a later
\* input opened the next chunk
C1_Witness ==
    /\ pc = "done"
    /\ overlapped_percent = 0
    /\ ~has_custom
    /\ Len(cks) >= 3
    /\ tk_nums[2] > chunk_token_num
    /\ tk_nums[2] > num_tokens_from_string(<<"\n">> \o sections[1].text)

\* the chunks opened after the first one: cks[1] is the empty chunk the
\* merge starts from and cks[2] the first chunk that holds input
LaterChunks == 3..Len(cks)

Suffix(s, n) == SubSeq(s, Len(s) - n + 1, Len(s))

\* C2 as stated: every chunk opened after the first begins with a non-empty
\* prefix taken from the tail of the previous chunk's de-tagged text, whose
\* length is (100-p)/100 of that text's length (rounded down or up).
C2_OverlapAsStated ==
    pc \in {"default", "done"} /\ ~has_custom =>
        \A k \in LaterChunks :
            LET prev == remove_tag(cks[k - 1])
            IN  \E L \in 1..Len(prev) :
                    /\ L * 100 > Len(prev) * (100 - overlapped_percent) - 100
                    /\ L * 100 < Len(prev) * (100 - overlapped_percent) + 100
                    /\ L <= Len(cks[k])
                    /\ SubSeq(cks[k], 1, L) = Suffix(prev, L)

\* C2 amended: every chunk begins with the last ceil(len * p / 100)
\* characters of the previous chunk's de-tagged text (len its length),
\* followed by the newline that starts the chunk's first input; the prefix is
\* empty when p = 0 and non-empty when p > 0 and the previous chunk is not
\* empty.
C2_OverlapCarry ==
    pc \in {"default", "done"} /\ ~has_custom =>
        \A k \in 2..Len(cks) :
            LET prev == remove_tag(cks[k - 1])
                L == (Len(prev) * overlapped_percent + 99) \div 100
            IN  /\ Len(cks[k]) > L
                /\ SubSeq(cks[k], 1, L) = Suffix(prev, L)
                /\ cks[k][L + 1] = "\n"
                /\ (overlapped_percent > 0 /\ prev # <<>> => L >= 1)

\* a chunk opened with a non-empty carry-over of a previous chunk that holds
\* a position tag
C2_Witness ==
    /\ pc = "done"
    /\ ~has_custom
    /\ overlapped_percent = 30
    /\ Len(cks) >= 3
    /\ \E k \in LaterChunks :
           /\ remove_tag(cks[k - 1]) # cks[k - 1]
           /\ cks[k][1] # "\n"

\* number of leftmost non-overlapping occurrences of a literal of D in s
\* from position i on
RECURSIVE Occurrences(_, _, _)
Occurrences(s, i, D) ==
    IF i > Len(s) THEN 0
    ELSE LET fit == {d \in D : StartsAt(s, i, d)}
         IN  IF fit = {} THEN Occurrences(s, i + 1, D)
             ELSE LET n == CHOOSE n \in {Len(d) : d \in fit} :
                                \A d \in fit : Len(d) <= n
                  IN  1 + Occurrences(s, i + n, D)

\* number of segments of the first j sections
RECURSIVE SegmentsBefore(_, _)
SegmentsBefore(j, D) ==
    IF j = 0 THEN 0
    ELSE SegmentsBefore(j - 1, D) + 1 + Occurrences(sections[j].text, 1, D)

\* the chunk without its leading newline and without the section's tag
Segment(chunk, pos) ==
    LET body == Tail(chunk)
    IN  IF pos # <<>> /\ Len(body) >= Len(pos) /\ Suffix(body, Len(pos)) = pos
        THEN SubSeq(body, 1, Len(body) - Len(pos))
        ELSE body

ExampleSection == [text |-> <<"a", "\n", "\n", "b", "\n", "\n", "c">>, pos |-> <<>>]

\* C3: with a backtick-quoted literal in the delimiter, the result holds one
\* chunk per segment of each section (one more than the delimiter
\* occurrences), each a newline followed by a segment that holds no
\* delimiter, in order; joined by the delimiter the segments of a section
\* give the section back; and "a\n\nb\n\nc" split on `\n\n` gives
\* ["\na", "\nb", "\nc"] for every chunk_token_num and overlapped_percent.
C3_CustomHardSplit ==
    pc = "done" /\ has_custom =>
        LET D == custom_delimiters(delimiter)
        IN  /\ Len(cks) = SegmentsBefore(Len(sections), D)
            /\ \A j \in 1..Len(sections) :
                   LET first == SegmentsBefore(j - 1, D) + 1
                       last == SegmentsBefore(j, D)
                       segs == [k \in 1..(last - first + 1) |->
                                   Segment(cks[first + k - 1], sections[j].pos)]
                   IN  /\ \A k \in first..last : cks[k][1] = "\n"
                       /\ \A k \in 1..Len(segs) : \A d \in D : Find(segs[k], d) < 0
                       /\ \A d \in D : D = {d} => Join(segs, d) = sections[j].text
            /\ (sections = <<ExampleSection>> /\ D = {<<"\n", "\n">>}
                    => cks = << <<"\n", "a">>, <<"\n", "b">>, <<"\n", "c">> >>)

\* the example of the claim under a budget that would hold all three segments
C3_Witness ==
    /\ pc = "done"
    /\ sections = <<ExampleSection>>
    /\ custom_delimiters(delimiter) = {<<"\n", "\n">>}
    /\ chunk_token_num = 12
    /\ overlapped_percent = 30
    /\ Len(cks) = 3

---------------------------------------------------------------------------
\* Node: the tree of tree_merge.  The nodes live in an arena (a sequence);
\* node 1 is the root the caller makes, a node's children are indices.

\* Node(level, depth, texts): depth defaults to -1, texts to []
Node(level, d, texts) ==
    [level |-> level, depth |-> d, texts |-> texts, children |-> <<>>]

\* the test of build_tree that folds a line into the node on top of the stack
BeyondDepthNever(rootDepth, level) == FALSE

BeyondDepth(rootDepth, level) == rootDepth # -1 /\ level > rootDepth

\* while len(stack) > 1 and level <= stack[-1].get_level(): stack.pop()
RECURSIVE PopToParentStrict(_, _, _)
PopToParentStrict(ns, st, level) ==
    IF Len(st) > 1 /\ level < ns[st[Len(st)]].level
    THEN PopToParentStrict(ns, SubSeq(st, 1, Len(st) - 1), level)
    ELSE st

RECURSIVE PopToParent(_, _, _)
PopToParent(ns, st, level) ==
    IF Len(st) > 1 /\ level <= ns[st[Len(st)]].level
    THEN PopToParent(ns, SubSeq(st, 1, Len(st) - 1), level)
    ELSE st

\* an iteration that folds a line beyond the depth into the root
BuildTreeLineFoldsIntoRoot(ns, st, level, text) ==
    IF BeyondDepth(ns[1].depth, level)
    THEN <<[ns EXCEPT ![1].texts = Append(@, text)], st>>
    ELSE LET st2 == PopToParent(ns, st, level)
             new == Len(ns) + 1
             parent == st2[Len(st2)]
         IN  <<Append([ns EXCEPT ![parent].children = Append(@, new)],
                      Node(level, -1, <<text>>)),
               Append(st2, new)>>

\* one iteration of build_tree's loop: the pair <<nodes, stack>> after it
build_tree_line(ns, st, level, text) ==
    IF BeyondDepth(ns[1].depth, level)
    THEN <<[ns EXCEPT ![st[Len(st)]].texts = Append(@, text)], st>>
    ELSE LET st2 == PopToParent(ns, st, level)
             new == Len(ns) + 1
             parent == st2[Len(st2)]
         IN  <<Append([ns EXCEPT ![parent].children = Append(@, new)],
                      Node(level, -1, <<text>>)),
               Append(st2, new)>>

\* a visit that emits a chunk for a childless heading only when lines were
\* folded into it
RECURSIVE DfsBodyOnly(_, _, _)
DfsBodyOnly(ns, n, titles) ==
    LET level == ns[n].level
        texts == ns[n].texts
        child == ns[n].children
        d == ns[1].depth
        rootChunk == IF level = 0 /\ texts # <<>>
                     THEN <<Join(titles \o texts, <<"\n">>)>>
                     ELSE <<>>
        path_titles == IF 1 <= level /\ level <= d THEN titles \o texts
                       ELSE titles
        ownChunk == IF level > d /\ texts # <<>>
                    THEN <<Join(path_titles \o texts, <<"\n">>)>>
                    ELSE IF child = <<>> /\ 1 <= level /\ level <= d
                            /\ Len(texts) > 1
                    THEN <<Join(path_titles, <<"\n">>)>>
                    ELSE <<>>
        below == [k \in 1..Len(child) |->
                     DfsBodyOnly(ns, child[k], path_titles)]
    IN  rootChunk \o ownChunk \o Flatten(below)

\* _dfs(node, tree_list, titles): the chunks the visit of node n appends
RECURSIVE dfs(_, _, _)
dfs(ns, n, titles) ==
    LET level == ns[n].level
        texts == ns[n].texts
        child == ns[n].children
        d == ns[1].depth
        rootChunk == IF level = 0 /\ texts # <<>>
                     THEN <<Join(titles \o texts, <<"\n">>)>>
                     ELSE <<>>
        path_titles == IF 1 <= level /\ level <= d THEN titles \o texts
                       ELSE titles
        ownChunk == IF level > d /\ texts # <<>>
                    THEN <<Join(path_titles \o texts, <<"\n">>)>>
                    ELSE IF child = <<>> /\ 1 <= level /\ level <= d
                    THEN <<Join(path_titles, <<"\n">>)>>
                    ELSE <<>>
        below == [k \in 1..Len(child) |-> dfs(ns, child[k], path_titles)]
    IN  rootChunk \o ownChunk \o Flatten(below)

\* get_tree(): the chunks of the whole tree
get_tree(ns) == dfs(ns, 1, <<>>)

---------------------------------------------------------------------------
\* The inputs of build_tree

MaxLines == 4
MaxLevel == 3
MaxDepth == 3

\* the text of the i-th line: one letter per line
LineLetters == <<"a", "b", "c", "d", "e", "f">>
LineText(i) == <<LineLetters[i]>>

LineSeqs ==
    UNION {{[i \in 1..n |-> [level |-> lv[i], text |-> LineText(i)]] :
               lv \in [1..n -> 1..MaxLevel]} : n \in 0..MaxLines}

---------------------------------------------------------------------------
\* build_tree and get_tree as a state machine: one step per line

TreeInit ==
    /\ pc = "build_tree"
    /\ lines \in LineSeqs
    /\ depth \in 1..MaxDepth
    /\ nodes = <<Node(0, depth, <<>>)>>
    /\ stack = <<1>>
    /\ line_i = 1
    /\ tree_list = <<>>
    /\ TreeAlone

\* for level, text in lines: ...
BuildTreeStep ==
    /\ pc = "build_tree"
    /\ line_i <= Len(lines)
    /\ LET r == build_tree_line(nodes, stack, lines[line_i].level,
                                lines[line_i].text)
       IN  /\ nodes' = r[1]
           /\ stack' = r[2]
    /\ line_i' = line_i + 1
    /\ UNCHANGED <<pc, lines, depth, tree_list>>
    /\ UNCHANGED notTreeVars

\* return self
BuildTreeReturn ==
    /\ pc = "build_tree"
    /\ line_i > Len(lines)
    /\ pc' = "get_tree"
    /\ UNCHANGED treeVars
    /\ UNCHANGED notTreeVars

\* root.get_tree()
GetTree ==
    /\ pc = "get_tree"
    /\ tree_list' = get_tree(nodes)
    /\ pc' = "done"
    /\ UNCHANGED <<lines, depth, nodes, stack, line_i>>
    /\ UNCHANGED notTreeVars

TreeNext ==
    \/ BuildTreeStep
    \/ BuildTreeReturn
    \/ GetTree

SpecTree == TreeInit /\ [][TreeNext]_vars

---------------------------------------------------------------------------
\* Claims about the tree

\* the indices of the lines that are level-1 headings
Headings == {i \in 1..Len(lines) : lines[i].level = 1}

\* the texts of the lines from..to
LineTexts(from, to) == [k \in 1..(to - from + 1) |-> lines[from + k - 1].text]

\* the last line of the section that heading h opens
SectionEnd(h) ==
    LET later == {g \in Headings : g > h}
    IN  IF later = {} THEN Len(lines)
        ELSE (CHOOSE g \in later : \A x \in later : g <= x) - 1

\* the number of lines before the first level-1 heading
Preamble ==
    IF Headings = {} THEN Len(lines)
    ELSE (CHOOSE g \in Headings : \A x \in Headings : g <= x) - 1

IsPrefix(p, s) == Len(p) <= Len(s) /\ SubSeq(s, 1, Len(p)) = p

\* C4: with depth = 1 the flattened tree holds one chunk per level-1
\* heading, in order, and the chunk begins with that heading's text and holds
\* the lines up to the next level-1 heading; the only other chunk is the
\* first one, made of the lines before the first level-1 heading, and it
\* exists only if there are such lines.
C4_HeadingPrefix ==
    pc = "done" /\ depth = 1 =>
        LET off == IF Preamble > 0 THEN 1 ELSE 0
        IN  /\ Len(tree_list) = off + Cardinality(Headings)
            /\ (off = 1 => tree_list[1] = Join(LineTexts(1, Preamble), <<"\n">>))
            /\ \A h \in Headings :
                   LET k == off + Cardinality({g \in Headings : g <= h})
                   IN  /\ IsPrefix(lines[h].text, tree_list[k])
                       /\ tree_list[k] = Join(LineTexts(h, SectionEnd(h)), <<"\n">>)

\* lines before the first heading, then two headings, the first with a body
C4_Witness ==
    /\ pc = "done"
    /\ depth = 1
    /\ Len(lines) = 4
    /\ lines[1].level = 2
    /\ lines[2].level = 1
    /\ lines[3].level = 3
    /\ lines[4].level = 1
    /\ tree_list = << <<"a">>, <<"b", "\n", "c">>, <<"d">> >>

---------------------------------------------------------------------------
\* attach_media_context
\*
\* A chunk is a dict; the model keeps the keys the function reads.  A key
\* that is absent holds NoText (a text), NoInt (a number), <<>> (a list) or
\* None (doc_type_kwd); a number n that is present is held as <<n>>.  content_ltks and content_sm_ltks hold the text they
\* were computed from.

NoText == <<None>>
NoInt == <<>>

\* the characters str.strip() and str.split() take for white space: those of
\* str.isspace(); a character TLA+ has no escape for is named by its code
WhiteSpace ==
    {"\t", "\n", "U000B", "\f", "\r", "U001C", "U001D", "U001E", "U001F", " ",
     "U0085", "U00A0", "U1680", "U2000", "U2001", "U2002", "U2003", "U2004",
     "U2005", "U2006", "U2007", "U2008", "U2009", "U200A", "U2028", "U2029",
     "U202F", "U205F", "U3000"}

\* text_val.strip() is not empty
HasVisible(t) == \E k \in 1..Len(t) : t[k] \notin WhiteSpace

\* get_text(ck)
get_text(ck) ==
    IF ck.content_with_weight # NoText THEN ck.content_with_weight
    ELSE IF ck.text # NoText THEN ck.text
    ELSE <<>>

is_image_chunk(ck) ==
    \/ ck.doc_type_kwd = "image"
    \/ LET text_val == IF ck.content_with_weight # NoText
                       THEN ck.content_with_weight ELSE ck.text
           has_text == text_val # NoText /\ HasVisible(text_val)
       IN  ck.image /\ ~has_text

is_table_chunk(ck) == ck.doc_type_kwd = "table"

is_text_chunk(ck) == ~is_image_chunk(ck) /\ ~is_table_chunk(ck)

\* the class [.。！？!?；;：:\n] of split_sentences
SentenceEnds ==
    {".", "U3002", "UFF01", "UFF1F", "!", "?", "UFF1B", ";", "UFF1A", ":", "\n"}

\* split_sentences(text): every sentence ends with one character of the
\* class, except possibly the last
RECURSIVE SplitSentencesFrom(_, _, _)
SplitSentencesFrom(text, i, buf) ==
    IF i > Len(text) THEN (IF buf # <<>> THEN <<buf>> ELSE <<>>)
    ELSE IF text[i] \in SentenceEnds
         THEN <<Append(buf, text[i])>> \o SplitSentencesFrom(text, i + 1, <<>>)
         ELSE SplitSentencesFrom(text, i + 1, Append(buf, text[i]))

split_sentences(text) == SplitSentencesFrom(text, 1, <<>>)

Reverse(s) == [k \in 1..Len(s) |-> s[Len(s) + 1 - k]]

\* the loop of trim_to_tokens over seq: the sentences collected, in the
\* order they were taken; a sentence over the remaining budget is still
\* taken, and ends the loop
RECURSIVE Collect(_, _)
Collect(seq, remaining) ==
    IF seq = <<>> THEN <<>>
    ELSE LET s == Head(seq)
             tks == num_tokens_from_string(s)
         IN  IF tks <= 0 THEN Collect(Tail(seq), remaining)
             ELSE IF tks > remaining THEN <<s>>
             ELSE <<s>> \o Collect(Tail(seq), remaining - tks)

\* a trim that takes the sentences from the head whatever from_tail says
TrimFromHead(text, token_budget, from_tail) ==
    IF token_budget <= 0 \/ text = <<>> THEN <<>>
    ELSE LET sentences == split_sentences(text)
         IN  IF sentences = <<>> THEN <<>>
             ELSE Flatten(Collect(sentences, token_budget))

\* trim_to_tokens(text, token_budget, from_tail)
trim_to_tokens(text, token_budget, from_tail) ==
    IF token_budget <= 0 \/ text = <<>> THEN <<>>
    ELSE LET sentences == split_sentences(text)
         IN  IF sentences = <<>> THEN <<>>
             ELSE IF from_tail
                  THEN Flatten(Reverse(Collect(Reverse(sentences), token_budget)))
                  ELSE Flatten(Collect(sentences, token_budget))

\* extract_position(ck): <<pn, top, left>>, each NoInt for None or <<h>> for
\* a number of h halves; position_int[0][1] of an entry with fewer than two
\* elements raises IndexError, which is caught and gives None for all three
extract_position(ck) ==
    IF ck.position_int # <<>> /\ Len(ck.position_int[1]) < 2
    THEN <<NoInt, NoInt, NoInt>>
    ELSE <<IF ck.page_num_int # <<>> THEN <<2 * ck.page_num_int[1]>>
           ELSE ck.page_number,
           IF ck.top_int # <<>> THEN <<2 * ck.top_int[1]>> ELSE ck.top,
           IF ck.position_int # <<>> THEN <<2 * ck.position_int[1][2]>>
           ELSE ck.x0>>

\* int(v) of a number of halves: towards zero
IntPart(h) == IF h >= 0 THEN h \div 2 ELSE -((-h) \div 2)

\* the entries of positioned_indices: (idx, pn, top, left or 0)
PositionedEntries(chs) ==
    {<<idx, extract_position(chs[idx])[1][1], extract_position(chs[idx])[2][1],
       IF extract_position(chs[idx])[3] # NoInt
       THEN extract_position(chs[idx])[3][1] ELSE 0>> :
        idx \in {i \in 1..Len(chs) : /\ extract_position(chs[i])[1] # NoInt
                                      /\ extract_position(chs[i])[2] # NoInt}}

\* the sort key (int(pn), int(top), int(left), idx), compared as tuples
KeyLess(a, b) ==
    LET ka == <<IntPart(a[2]), IntPart(a[3]), IntPart(a[4]), a[1]>>
        kb == <<IntPart(b[2]), IntPart(b[3]), IntPart(b[4]), b[1]>>
    IN  \/ ka[1] < kb[1]
        \/ ka[1] = kb[1] /\ ka[2] < kb[2]
        \/ ka[1] = kb[1] /\ ka[2] = kb[2] /\ ka[3] < kb[3]
        \/ ka[1] = kb[1] /\ ka[2] = kb[2] /\ ka[3] = kb[3] /\ ka[4] < kb[4]

RECURSIVE SortedIdx(_)
SortedIdx(entries) ==
    IF entries = {} THEN <<>>
    ELSE LET m == CHOOSE e \in entries :
                      \A f \in entries \ {e} : KeyLess(e, f)
         IN  <<m[1]>> \o SortedIdx(entries \ {m})

RECURSIVE Ascending(_)
Ascending(S) ==
    IF S = {} THEN <<>>
    ELSE LET m == CHOOSE x \in S : \A y \in S : x <= y
         IN  <<m>> \o Ascending(S \ {m})

\* ordered_indices: the positioned chunks in position order, then the others
OrderedIndices(chs) ==
    LET pos == PositionedEntries(chs)
    IN  IF pos # {}
        THEN SortedIdx(pos) \o Ascending((1..Len(chs)) \ {e[1] : e \in pos})
        ELSE [i \in 1..Len(chs) |-> i]

\* the budget of a chunk
TokenBudget(ck, tsize, isize) ==
    IF is_image_chunk(ck) THEN isize
    ELSE IF is_table_chunk(ck) THEN tsize
    ELSE 0

\* whether a scan goes on past the neighbour ck: it stops at a chunk that is
\* not a text chunk
ScanStopsAt(ck) == ~is_text_chunk(ck)

\* one scan (backward: step = -1, forward: step = 1) from the sorted
\* position p: the texts collected, in the order they were met
RECURSIVE Scan(_, _, _, _, _)
Scan(chs, order, p, step, remaining) ==
    IF p < 1 \/ p > Len(order) \/ remaining <= 0 THEN <<>>
    ELSE LET nb == chs[order[p]]
             txt == get_text(nb)
             tks == num_tokens_from_string(txt)
         IN  IF ScanStopsAt(nb) THEN <<>>
             ELSE IF txt = <<>> \/ tks <= 0
                  THEN Scan(chs, order, p + step, step, remaining)
             ELSE IF tks > remaining
                  THEN LET cut == trim_to_tokens(txt, remaining, step = -1)
                       IN  <<cut>> \o Scan(chs, order, p + step, step,
                                           remaining - num_tokens_from_string(cut))
             ELSE <<txt>> \o Scan(chs, order, p + step, step, remaining - tks)

\* the chunk with the combined text stored and its token fields refreshed
Updated(ck, combined) ==
    LET original == IF ck.content_with_weight # NoText THEN ck.content_with_weight
                    ELSE ck.text
        stored == IF ck.content_with_weight # NoText
                  THEN [ck EXCEPT !.content_with_weight = combined]
                  ELSE IF ck.text # NoText
                  THEN [ck EXCEPT !.text = combined]
                  ELSE ck
    IN  IF combined # original
        THEN [stored EXCEPT
                 !.content_ltks = IF @ # NoText THEN combined ELSE @,
                 !.content_sm_ltks = IF @ # NoText THEN combined ELSE @]
        ELSE stored

---------------------------------------------------------------------------
\* The inputs of attach_media_context

MaxChunks == 3

LowerLetters == <<"a", "b", "c", "d", "e">>
UpperLetters == <<"A", "B", "C", "D", "E">>

\* a dict with none of the keys
EmptyChunk ==
    [doc_type_kwd |-> None, image |-> FALSE,
     content_with_weight |-> NoText, text |-> NoText,
     content_ltks |-> NoText, content_sm_ltks |-> NoText,
     page_num_int |-> <<>>, top_int |-> <<>>, position_int |-> <<>>,
     page_number |-> NoInt, top |-> NoInt, x0 |-> NoInt]

ChunkKinds == {"text", "text2", "image", "bare_image", "table"}

\* the i-th chunk of a kind; its text is written with its own letters
KindChunk(i, kind) ==
    LET x == LowerLetters[i]
        X == UpperLetters[i]
    IN  CASE kind = "text" ->
                 [EmptyChunk EXCEPT !.content_with_weight = <<x>>,
                                    !.content_ltks = <<x>>,
                                    !.content_sm_ltks = <<x>>]
          [] kind = "text2" ->
                 [EmptyChunk EXCEPT !.text = <<x, ".", X, X>>]
          [] kind = "image" ->
                 [EmptyChunk EXCEPT !.doc_type_kwd = "image", !.image = TRUE,
                                    !.content_with_weight = <<x>>,
                                    !.content_ltks = <<x>>,
                                    !.content_sm_ltks = <<x>>]
          [] kind = "bare_image" ->
                 [EmptyChunk EXCEPT !.image = TRUE, !.text = <<>>]
          [] kind = "table" ->
                 [EmptyChunk EXCEPT !.doc_type_kwd = "table",
                                    !.content_with_weight = <<x, x>>,
                                    !.content_ltks = <<x, x>>,
                                    !.content_sm_ltks = <<x, x>>]

\* the position the i-th chunk has when it has one: page 1; the first chunk
\* lies lowest, the others share a line
PlaceTop(i) == IF i = 1 THEN 2 ELSE 1
PlaceLeft(i) == IF i = 3 THEN 0 ELSE 1

\* the position keys as add_positions writes them (odd i), or as
\* page_number/top (even i): page 1.0 and a top half a unit below PlaceTop
Placed(ck, i) ==
    IF i % 2 = 1
    THEN [ck EXCEPT !.page_num_int = <<1>>, !.top_int = <<PlaceTop(i)>>,
                    !.position_int = << <<1, PlaceLeft(i), PlaceLeft(i) + 1,
                                         PlaceTop(i), PlaceTop(i) + 1>> >>]
    ELSE [ck EXCEPT !.page_number = <<2>>, !.top = <<2 * PlaceTop(i) + 1>>]

ChunkLists ==
    UNION {{[i \in 1..n |-> IF placed[i] THEN Placed(KindChunk(i, kind[i]), i)
                                         ELSE KindChunk(i, kind[i])] :
               kind \in [1..n -> ChunkKinds], placed \in [1..n -> BOOLEAN]} :
           n \in 0..MaxChunks}

ContextSizes == {-1, 0, 1, 3}

---------------------------------------------------------------------------
\* attach_media_context as a state machine: one step per chunk in position
\* order

CtxInit ==
    /\ pc = "attach_media_context"
    /\ chunks0 \in ChunkLists
    /\ chunks = chunks0
    /\ table_context_size \in ContextSizes
    /\ image_context_size \in ContextSizes
    /\ ordered_indices = <<>>
    /\ positioned = FALSE
    /\ sorted_pos = 0
    /\ prev_ctx = <<>>
    /\ next_ctx = <<>>
    /\ CtxAlone

\* if not chunks or (table_context_size <= 0 and image_context_size <= 0)
ReturnsEarlyIfEmpty(chs, tsize, isize) == chs = <<>>
ReturnsEarly(chs, tsize, isize) == chs = <<>> \/ (tsize <= 0 /\ isize <= 0)

\* the early return, or the ordering of the chunks
AttachEnter ==
    /\ pc = "attach_media_context"
    /\ IF ReturnsEarly(chunks, table_context_size, image_context_size)
       THEN /\ pc' = "done"
            /\ UNCHANGED <<ordered_indices, positioned, sorted_pos>>
       ELSE /\ pc' = "attach_loop"
            /\ ordered_indices' = OrderedIndices(chunks)
            /\ positioned' = (PositionedEntries(chunks) # {})
            /\ sorted_pos' = 1
    /\ UNCHANGED <<chunks0, chunks, table_context_size, image_context_size,
                   prev_ctx, next_ctx>>
    /\ UNCHANGED notCtxVars

\* the loop body for the chunk at sorted_pos
AttachStep ==
    /\ pc = "attach_loop"
    /\ sorted_pos <= Len(ordered_indices)
    /\ LET idx == ordered_indices[sorted_pos]
           ck == chunks[idx]
           token_budget == TokenBudget(ck, table_context_size, image_context_size)
           prev == Reverse(Scan(chunks, ordered_indices, sorted_pos - 1, -1,
                                token_budget))
           next == Scan(chunks, ordered_indices, sorted_pos + 1, 1, token_budget)
           self_text == get_text(ck)
           pieces == prev \o (IF self_text # <<>> THEN <<self_text>> ELSE <<>>)
                          \o next
           combined == Join(pieces, <<"\n">>)
       IN  IF token_budget <= 0
           THEN /\ prev_ctx' = <<>>
                /\ next_ctx' = <<>>
                /\ UNCHANGED chunks
           ELSE /\ prev_ctx' = prev
                /\ next_ctx' = next
                /\ chunks' = IF prev = <<>> /\ next = <<>> THEN chunks
                             ELSE [chunks EXCEPT ![idx] = Updated(ck, combined)]
    /\ sorted_pos' = sorted_pos + 1
    /\ UNCHANGED <<pc, chunks0, table_context_size, image_context_size,
                   ordered_indices, positioned>>
    /\ UNCHANGED notCtxVars

\* the chunks are put in position order and returned
AttachReturn ==
    /\ pc = "attach_loop"
    /\ sorted_pos > Len(ordered_indices)
    /\ chunks' = IF positioned
                 THEN [k \in 1..Len(ordered_indices) |-> chunks[ordered_indices[k]]]
                 ELSE chunks
    /\ pc' = "done"
    /\ UNCHANGED <<chunks0, table_context_size, image_context_size,
                   ordered_indices, positioned, sorted_pos, prev_ctx, next_ctx>>
    /\ UNCHANGED notCtxVars

CtxNext ==
    \/ AttachEnter
    \/ AttachStep
    \/ AttachReturn

SpecCtx == CtxInit /\ [][CtxNext]_vars

---------------------------------------------------------------------------
\* Claims about attach_media_context

\* the place of input chunk i in the position order
PlaceOf(i) == CHOOSE p \in 1..Len(ordered_indices) : ordered_indices[p] = i

\* input chunk i as it is in the returned list
FinalChunk(i) ==
    IF pc = "done" /\ positioned THEN chunks[PlaceOf(i)] ELSE chunks[i]

CharsOf(t) == {t[k] : k \in 1..Len(t)}

\* the letters the text of input chunk i was written with
LettersOf(i) == {LowerLetters[i], UpperLetters[i]}

IsMedia(ck) == is_image_chunk(ck) \/ is_table_chunk(ck)

\* C5: the context of an image/table chunk never holds text of a chunk that
\* lies beyond another image/table chunk: if the returned text of media
\* chunk m holds text of chunk j, no chunk that was passed in as an image or
\* a table lies between j and m in the position order.
C5_NoJumpOverMedia ==
    pc = "done" /\ ordered_indices # <<>> =>
        \A m \in 1..Len(chunks0) : \A j \in 1..Len(chunks0) :
            (/\ m # j
             /\ IsMedia(chunks0[m])
             /\ LettersOf(j) \cap CharsOf(get_text(FinalChunk(m))) # {})
            => ~ \E k \in 1..Len(chunks0) :
                     /\ IsMedia(chunks0[k])
                     /\ \/ PlaceOf(j) < PlaceOf(k) /\ PlaceOf(k) < PlaceOf(m)
                        \/ PlaceOf(m) < PlaceOf(k) /\ PlaceOf(k) < PlaceOf(j)

RECURSIVE TotalTokens(_)
TotalTokens(texts) ==
    IF texts = <<>> THEN 0
    ELSE num_tokens_from_string(Head(texts)) + TotalTokens(Tail(texts))

\* C6: for the chunk the loop has just handled, the text attached in each
\* direction holds at most as many tokens as the chunk's budget.
C6_ContextWithinBudget ==
    pc = "attach_loop" /\ sorted_pos > 1 =>
        LET budget == TokenBudget(chunks0[ordered_indices[sorted_pos - 1]],
                                  table_context_size, image_context_size)
        IN  /\ TotalTokens(prev_ctx) <= budget
            /\ TotalTokens(next_ctx) <= budget

---------------------------------------------------------------------------
\* Regular expressions, as re.match uses them.  A pattern is a tree:
\*   In(S)        one character of the set S              [...]
\*   NotIn(S)     one character outside S                 [^...]
\*   AnyChar      one character other than a newline      .
\*   Bol          the start of the text                   ^
\*   Cat(ps)      the patterns of ps one after another
\*   Or(ps)       one of the patterns of ps               a|b
\*   Rep(p,lo,hi) p repeated lo to hi times, hi = -1 for no upper limit
In(S) == [t |-> "in", c |-> S]
NotIn(S) == [t |-> "notin", c |-> S]
AnyChar == [t |-> "dot"]
Bol == [t |-> "bol"]
Cat(ps) == [t |-> "cat", s |-> ps]
Or(ps) == [t |-> "or", s |-> ps]
Rep(p, lo, hi) == [t |-> "rep", r |-> p, lo |-> lo, hi |-> hi]
Unbounded == -1

\* the characters of w, one after another
Word(w) == Cat([k \in 1..Len(w) |-> In({w[k]})])
Opt(p) == Rep(p, 0, 1)
Plus(p) == Rep(p, 1, Unbounded)
Star(p) == Rep(p, 0, Unbounded)

\* Ends(p, s, i): the positions at which a match of p that starts at
\* position i of s can end (the position of the character after the match)
RECURSIVE Ends(_, _, _)
RECURSIVE CatEnds(_, _, _)
RECURSIVE RepEnds(_, _, _, _, _)
Ends(p, s, i) ==
    CASE p.t = "in" -> IF i <= Len(s) /\ s[i] \in p.c THEN {i + 1} ELSE {}
      [] p.t = "notin" ->
             IF i <= Len(s) /\ s[i] \notin p.c THEN {i + 1} ELSE {}
      [] p.t = "dot" -> IF i <= Len(s) /\ s[i] # "\n" THEN {i + 1} ELSE {}
      [] p.t = "bol" -> IF i = 1 THEN {i} ELSE {}
      [] p.t = "cat" -> CatEnds(p.s, s, {i})
      [] p.t = "or" -> UNION {Ends(p.s[k], s, i) : k \in 1..Len(p.s)}
      [] p.t = "rep" -> RepEnds(p.r, s, i, p.lo, p.hi)

CatEnds(ps, s, from) ==
    IF ps = <<>> THEN from
    ELSE CatEnds(Tail(ps), s, UNION {Ends(Head(ps), s, i) : i \in from})

RepEnds(p, s, i, lo, hi) ==
    LET here == IF lo <= 0 THEN {i} ELSE {}
        more == IF hi = 0 THEN {} ELSE {j \in Ends(p, s, i) : j > i}
        lo1 == IF lo <= 0 THEN 0 ELSE lo - 1
        hi1 == IF hi = Unbounded THEN Unbounded ELSE hi - 1
    IN  here \cup UNION {RepEnds(p, s, j, lo1, hi1) : j \in more}

\* re.match(p, s) finds a match
re_match(p, s) == Ends(p, s, 1) # {}

---------------------------------------------------------------------------
\* BULLET_PATTERN and bullets_category

\* CJK characters, by code point
Di == "U7B2C"
Fen == "U5206"
Bian == "U7F16"
Bu == "U90E8"
Zhang == "U7AE0"
Jie == "U8282"
Tiao == "U6761"
LParenWide == "UFF08"
RParenWide == "UFF09"
Dun == "U3001"
Ge == "U4E2A"
Zhi == "U53EA"
\* [零一二三四五六七八九十百]
CnNumerals ==
    {"U96F6", "U4E00", "U4E8C", "U4E09", "U56DB", "U4E94", "U516D", "U4E03",
     "U516B", "U4E5D", "U5341", "U767E"}

LatinLetters ==
    {"a", "b", "c", "d", "e", "f", "g", "h", "i", "j", "k", "l", "m", "n",
     "o", "p", "q", "r", "s", "t", "u", "v", "w", "x", "y", "z",
     "A", "B", "C", "D", "E", "F", "G", "H", "I", "J", "K", "L", "M", "N",
     "O", "P", "Q", "R", "S", "T", "U", "V", "W", "X", "Y", "Z"}

\* 第[零一二三四五六七八九十百0-9]+ and 第[0-9]+
DiCnNum == Cat(<<In({Di}), Plus(In(CnNumerals \cup Digits))>>)
DiNum == Cat(<<In({Di}), Plus(In(Digits))>>)
\* [\(（][零一二三四五六七八九十百]+[\)）]
ParenCn ==
    Cat(<<In({"(", LParenWide}), Plus(In(CnNumerals)),
          In({")", RParenWide})>>)
\* [0-9]{,2}
UpTo2Digits == Rep(In(Digits), 0, 2)
Dot == In({"."})
Hash == In({"#"})

BULLET_PATTERN == <<
    <<Cat(<<DiCnNum, Or(<<Cat(<<Opt(In({Fen})), In({Bian})>>),
                          Word(<<Bu, Fen>>)>>)>>),
      Cat(<<DiCnNum, In({Zhang})>>),
      Cat(<<DiCnNum, In({Jie})>>),
      Cat(<<DiCnNum, In({Tiao})>>),
      ParenCn>>,
    <<Cat(<<DiNum, In({Zhang})>>),
      Cat(<<DiNum, In({Jie})>>),
      Cat(<<UpTo2Digits, In({".", " ", Dun})>>),
      Cat(<<UpTo2Digits, Dot, UpTo2Digits,
            NotIn(LatinLetters \cup {"/", "%", "~", "-"})>>),
      Cat(<<UpTo2Digits, Dot, UpTo2Digits, Dot, UpTo2Digits>>),
      Cat(<<UpTo2Digits, Dot, UpTo2Digits, Dot, UpTo2Digits, Dot,
            UpTo2Digits>>)>>,
    <<Cat(<<DiCnNum, In({Zhang})>>),
      Cat(<<DiCnNum, In({Jie})>>),
      Cat(<<Plus(In(CnNumerals)), In({" ", Dun})>>),
      ParenCn,
      Cat(<<In({"(", LParenWide}), UpTo2Digits, In({")", RParenWide})>>)>>,
    <<Cat(<<Word(<<"P", "A", "R", "T", " ">>),
            Or(<<Word(<<"O", "N", "E">>), Word(<<"T", "W", "O">>),
                 Word(<<"T", "H", "R", "E", "E">>),
                 Word(<<"F", "O", "U", "R">>), Word(<<"F", "I", "V", "E">>),
                 Word(<<"S", "I", "X">>), Word(<<"S", "E", "V", "E", "N">>),
                 Word(<<"E", "I", "G", "H", "T">>),
                 Word(<<"N", "I", "N", "E">>), Word(<<"T", "E", "N">>)>>)>>),
      Cat(<<Word(<<"C", "h", "a", "p", "t", "e", "r", " ">>),
            Or(<<Cat(<<Plus(In({"I"})), Opt(In({"V"}))>>),
                 Cat(<<In({"V"}), Star(In({"I"}))>>),
                 Word(<<"X", "I">>), Word(<<"I", "X">>), In({"X"})>>)>>),
      Cat(<<Word(<<"S", "e", "c", "t", "i", "o", "n", " ">>),
            Plus(In(Digits))>>),
      Cat(<<Word(<<"A", "r", "t", "i", "c", "l", "e", " ">>),
            Plus(In(Digits))>>)>>,
    <<Cat(<<Bol, Hash, NotIn({"#"})>>),
      Cat(<<Bol, Hash, Hash, NotIn({"#"})>>),
      Cat(<<Bol, Rep(Hash, 3, 3), Star(AnyChar)>>),
      Cat(<<Bol, Rep(Hash, 4, 4), Star(AnyChar)>>),
      Cat(<<Bol, Rep(Hash, 5, 5), Star(AnyChar)>>),
      Cat(<<Bol, Rep(Hash, 6, 6), Star(AnyChar)>>)>> >>

\* the patterns of not_bullet
NotBulletPatterns == <<
    In({"0"}),
    Cat(<<Plus(In(Digits)), Plus(In({" "})),
          In(Digits \cup {"~", Ge, Zhi, "-"})>>),
    Cat(<<Plus(In(Digits)), Rep(Dot, 2, Unbounded)>>)>>

\* not_bullet(line)
not_bullet(line) ==
    \E k \in 1..Len(NotBulletPatterns) : re_match(NotBulletPatterns[k], line)

\* str.strip()
RECURSIVE LStrip(_)
LStrip(s) ==
    IF s # <<>> /\ Head(s) \in WhiteSpace THEN LStrip(Tail(s)) ELSE s
Strip(s) == Reverse(LStrip(Reverse(LStrip(s))))

\* the inner loop over the patterns of one style: some pattern matches the
\* stripped fragment and not_bullet does not reject it
StyleHit(pro, sec) ==
    LET stripped == Strip(sec)
    IN  \E k \in 1..Len(pro) :
            re_match(pro[k], stripped) /\ ~not_bullet(stripped)

\* the loop over the sections for one style: the hits of that style
RECURSIVE CountHits(_, _)
CountHits(pro, secs) ==
    IF secs = <<>> THEN 0
    ELSE (IF StyleHit(pro, Head(secs)) THEN 1 ELSE 0)
         + CountHits(pro, Tail(secs))

\* the test of the second loop that passes a style over
ScanSkipsStrict(h, mx) == h < mx
ScanSkips(h, mx) == h <= mx

\* one round of the second loop: <<res, maximum>> after style i with h hits
ScanHit(r, mx, i, h) == IF ScanSkips(h, mx) THEN <<r, mx>> ELSE <<i, h>>

RECURSIVE ScanHits(_, _, _, _)
ScanHits(hs, i, r, mx) ==
    IF i >= Len(hs) THEN r
    ELSE LET n == ScanHit(r, mx, i, hs[i + 1])
         IN  ScanHits(hs, i + 1, n[1], n[2])

\* bullets_category(sections)
bullets_category(secs) ==
    ScanHits([i \in 1..Len(BULLET_PATTERN) |->
                  CountHits(BULLET_PATTERN[i], secs)], 0, -1, 0)

\* The sampled fragments
MaxSample == 3

LinePool ==
    {<<"#", " ", "a">>,
     <<"#", "#", "#">>,
     <<Di, "1", Zhang>>,
     <<"1", ".", " ", "a">>,
     <<"(", "1", ")">>,
     <<"3", " ", Ge>>,
     <<"a", "b", "c">>,
     <<" ", "C", "h", "a", "p", "t", "e", "r", " ", "I", "\n">>}

---------------------------------------------------------------------------
\* bullets_category as a state machine: one step per style in the counting
\* loop, then one step per style in the loop that picks the result

BulletInit ==
    /\ pc = "count_hits"
    /\ sample \in SeqsUpTo(LinePool, MaxSample)
    /\ hits = [i \in 1..Len(BULLET_PATTERN) |-> 0]
    /\ style_i = 0
    /\ maximum = 0
    /\ res = -1
    /\ BulletAlone

\* for i, pro in enumerate(BULLET_PATTERN): count the sections style i hits
CountHitsStep ==
    /\ pc = "count_hits"
    /\ style_i < Len(BULLET_PATTERN)
    /\ hits' = [hits EXCEPT
                   ![style_i + 1] = CountHits(BULLET_PATTERN[style_i + 1],
                                              sample)]
    /\ IF style_i + 1 < Len(BULLET_PATTERN)
       THEN style_i' = style_i + 1 /\ pc' = pc
       ELSE style_i' = 0 /\ pc' = "scan_hits"
    /\ UNCHANGED <<sample, maximum, res>>
    /\ UNCHANGED notBulletVars

\* for i, h in enumerate(hits): keep the first style with the most hits;
\* after the last style the function returns res
ScanHitsStep ==
    /\ pc = "scan_hits"
    /\ style_i < Len(hits)
    /\ LET n == ScanHit(res, maximum, style_i, hits[style_i + 1])
       IN  res' = n[1] /\ maximum' = n[2]
    /\ style_i' = style_i + 1
    /\ pc' = IF style_i + 1 < Len(hits) THEN pc ELSE "bullets_done"
    /\ UNCHANGED <<sample, hits>>
    /\ UNCHANGED notBulletVars

BulletNext ==
    \/ CountHitsStep
    \/ ScanHitsStep

SpecBullets == BulletInit /\ [][BulletNext]_vars

---------------------------------------------------------------------------
\* Claims about bullets_category

\* the number of fragments of the sample that style i (from 0) hits
StyleCount(i) ==
    Cardinality({k \in 1..Len(sample) :
                     StyleHit(BULLET_PATTERN[i + 1], sample[k])})

StyleIndices == 0..(Len(BULLET_PATTERN) - 1)
MarkdownStyle == 4

\* the sample in another order
Permuted(f) == [k \in 1..Len(sample) |-> sample[f[k]]]
Orders ==
    {f \in [1..Len(sample) -> 1..Len(sample)] :
         \A a, b \in 1..Len(sample) : f[a] = f[b] => a = b}

\* C7: bullets_category returns the lowest style index whose count of
\* matching, non-rejected fragments is maximal and positive, and -1 when
\* every count is zero; the result is the same for every order of the
\* sample; a sample that only the Markdown-heading style matches yields the
\* index of that style.
C7_FirstMaximalStyle ==
    pc = "bullets_done" =>
        /\ (\A i \in StyleIndices : StyleCount(i) = 0) => res = -1
        /\ (\E i \in StyleIndices : StyleCount(i) > 0) =>
               /\ res \in StyleIndices
               /\ StyleCount(res) > 0
               /\ \A i \in StyleIndices : StyleCount(i) <= StyleCount(res)
               /\ \A i \in StyleIndices :
                      StyleCount(i) = StyleCount(res) => res <= i
        /\ \A f \in Orders : bullets_category(Permuted(f)) = res
        /\ (/\ StyleCount(MarkdownStyle) > 0
            /\ \A i \in StyleIndices \ {MarkdownStyle} : StyleCount(i) = 0)
           => res = MarkdownStyle

\* a sample in which two styles tie on the highest count and the lower index
\* is returned, with a fragment that not_bullet rejects
C7_Witness ==
    /\ pc = "bullets_done"
    /\ Len(sample) = MaxSample
    /\ \E i \in StyleIndices :
           /\ res < i
           /\ StyleCount(i) = StyleCount(res)
           /\ StyleCount(res) > 0
    /\ \E k \in 1..Len(sample) : not_bullet(Strip(sample[k]))
    /\ \E f \in Orders : Permuted(f) # sample

---------------------------------------------------------------------------
\* concat_img.  An image is a record: id tells one object from another
\* (img1 is img2), size is <<width, height>> and px holds the pixels row by
\* row (what tobytes() returns); pixel 0 is black.

Black == 0

\* the pixel at column x, row y (both from 0)
PixelAt(img, x, y) == img.px[y * img.size[1] + x + 1]

tobytes(img) == img.px

\* pixel_data1 == pixel_data2
SamePixelsNever(a, b) == FALSE
SamePixels(a, b) == tobytes(a) = tobytes(b)

\* Image.new('RGB', (new_width, new_height)) with img1 pasted at (0, 0)
\* and img2 at (0, height1)
Stacked(a, b, fresh) ==
    LET w == IF a.size[1] > b.size[1] THEN a.size[1] ELSE b.size[1]
        h == a.size[2] + b.size[2]
    IN  [id |-> fresh,
         size |-> <<w, h>>,
         px |-> [k \in 1..(w * h) |->
                    LET x == (k - 1) % w
                        y == (k - 1) \div w
                    IN  IF y < a.size[2]
                        THEN IF x < a.size[1] THEN PixelAt(a, x, y)
                             ELSE Black
                        ELSE IF x < b.size[1]
                             THEN PixelAt(b, x, y - a.size[2])
                             ELSE Black]]

\* concat_img(img1, img2); fresh is the id of the image it may create
concat_img(a, b, fresh) ==
    IF a # NoImage /\ b = NoImage THEN a
    ELSE IF a = NoImage /\ b # NoImage THEN b
    ELSE IF a = NoImage /\ b = NoImage THEN NoImage
    ELSE IF a.id = b.id THEN a
    ELSE IF SamePixels(a, b) THEN a
    ELSE Stacked(a, b, fresh)

\* The images passed in: at most MaxArea pixels, each black or not
MaxArea == 2
MaxRounds == 2
PixelValues == {Black, 1}
Shapes == {sz \in (1..MaxArea) \X (1..MaxArea) : sz[1] * sz[2] <= MaxArea}
ImagesWithId(n) ==
    UNION {{[id |-> n, size |-> sz, px |-> p] :
                p \in [1..(sz[1] * sz[2]) -> PixelValues]} : sz \in Shapes}

\* the id of the image a call creates in round r
FreshId(r) == r + 3

---------------------------------------------------------------------------
\* concat_img as a state machine: a call, and the caller putting the result
\* back as the first argument of the next call (images[-1] =
\* concat_img(images[-1], image))

ImgInit ==
    /\ pc = "concat_img"
    /\ img1 \in {NoImage} \cup ImagesWithId(1)
    /\ img2 \in {NoImage, img1} \cup ImagesWithId(2)
    /\ img_out = NoImage
    /\ img_round = 0
    /\ ImgAlone

ConcatImg ==
    /\ pc = "concat_img"
    /\ img_out' = concat_img(img1, img2, FreshId(img_round))
    /\ pc' = "concat_img_done"
    /\ UNCHANGED <<img1, img2, img_round>>
    /\ UNCHANGED notImgVars

ConcatAgain ==
    /\ pc = "concat_img_done"
    /\ img_round < MaxRounds
    /\ img1' = img_out
    /\ img2' \in {NoImage, img_out, img2}
    /\ img_round' = img_round + 1
    /\ pc' = "concat_img"
    /\ UNCHANGED img_out
    /\ UNCHANGED notImgVars

ImgNext ==
    \/ ConcatImg
    \/ ConcatAgain

SpecImg == ImgInit /\ [][ImgNext]_vars

---------------------------------------------------------------------------
\* Claims about concat_img

PixelIdentical(a, b) == a.size = b.size /\ a.px = b.px

\* C8: concat_img returns the other argument when exactly one is absent,
\* None when both are absent, and its first argument, unchanged, when both
\* are the same object or pixel-identical, so that concatenating an image
\* with itself never grows it.
C8_IdempotentMerge ==
    pc = "concat_img_done" =>
        /\ (img1 # NoImage /\ img2 = NoImage) => img_out = img1
        /\ (img1 = NoImage /\ img2 # NoImage) => img_out = img2
        /\ (img1 = NoImage /\ img2 = NoImage) => img_out = NoImage
        /\ (/\ img1 # NoImage
            /\ img2 # NoImage
            /\ (img1.id = img2.id \/ PixelIdentical(img1, img2)))
           => img_out = img1

\* two distinct image objects with the same pixels are merged into the
\* first one, and merging the result with the second again returns it as it
\* is
C8_Witness ==
    /\ pc = "concat_img_done"
    /\ img_round >= 1
    /\ img1 # NoImage
    /\ img2 # NoImage
    /\ img1.id # img2.id
    /\ PixelIdentical(img1, img2)
    /\ img_out = img1

---------------------------------------------------------------------------
\* Binary floating point.  The coordinates of the tags and of crop are
\* floats; a quotient, a product, a sum or a difference of two of them is
\* rounded to 53 binary digits, so that a result that is a whole number of
\* tenths in decimals may fall just beside it.  They are computed as the code
\* computes them, in binary.  A float that is not negative is the sequence
\* of its digits to the base 2^LimbBits, the lowest first: FracLimbs digits
\* after the point and WholeLimbs before it.

Thousand == 1000

SetMax(S) == CHOOSE x \in S : \A y \in S : y <= x

LimbBits == 17
LimbBase == 2^LimbBits
FracLimbs == 4
WholeLimbs == 2
Mantissa == 53

\* the first n digits of f / d after the point (f < d), the highest first,
\* and what is left after them
RECURSIVE Expand(_, _, _)
Expand(f, d, n) ==
    IF n = 0 THEN <<>>
    ELSE <<(f * LimbBase) \div d>> \o Expand((f * LimbBase) % d, d, n - 1)

RECURSIVE ExpandRest(_, _, _)
ExpandRest(f, d, n) ==
    IF n = 0 THEN f ELSE ExpandRest((f * LimbBase) % d, d, n - 1)

RECURSIVE AddLimbs(_, _, _, _)
AddLimbs(a, b, n, carry) ==
    IF n > Len(a) THEN <<>>
    ELSE <<(a[n] + b[n] + carry) % LimbBase>>
         \o AddLimbs(a, b, n + 1, (a[n] + b[n] + carry) \div LimbBase)

\* a - b for a >= b
RECURSIVE SubLimbs(_, _, _, _)
SubLimbs(a, b, n, borrow) ==
    IF n > Len(a) THEN <<>>
    ELSE <<(a[n] - b[n] - borrow + LimbBase) % LimbBase>>
         \o SubLimbs(a, b, n + 1, IF a[n] - b[n] - borrow < 0 THEN 1 ELSE 0)

\* the float nearest to the number v, followed by more digits when sticky:
\* 53 binary digits from the first 1, the rest rounded to nearest, and to
\* the even neighbour half-way.  Binary digit i (from 1, the lowest) is
\* digit (i - 1) % LimbBits of limb (i - 1) \div LimbBits + 1.
RoundToFloat(v, sticky) ==
    IF \A m \in 1..Len(v) : v[m] = 0 THEN v
    ELSE LET top == SetMax({m \in 1..Len(v) : v[m] # 0})
             len == SetMax({d \in 0..(LimbBits - 1) : v[top] >= 2^d})
             low == (top - 1) * LimbBits + len + 1 - (Mantissa - 1)
         IN  IF low <= 1 THEN v
             ELSE LET n == (low - 1) \div LimbBits + 1
                      r == (low - 1) % LimbBits
                      gn == (low - 2) \div LimbBits + 1
                      gr == (low - 2) % LimbBits
                      half == (v[gn] \div 2^gr) % 2 = 1
                      rest == \/ sticky
                              \/ \E m \in 1..(gn - 1) : v[m] # 0
                              \/ v[gn] % 2^gr # 0
                      odd == (v[n] \div 2^r) % 2 = 1
                      upper == [m \in 1..Len(v) |->
                                   IF m > n THEN v[m]
                                   ELSE IF m = n THEN (v[n] \div 2^r) * 2^r
                                   ELSE 0]
                      unit == [m \in 1..Len(v) |-> IF m = n THEN 2^r ELSE 0]
                  IN  IF half /\ (rest \/ odd)
                      THEN AddLimbs(upper, unit, 1, 0)
                      ELSE upper

\* the float nearest to k / d
FloatQuotient(k, d) ==
    RoundToFloat(Reverse(Expand(k % d, d, FracLimbs))
                     \o <<(k \div d) % LimbBase, (k \div d) \div LimbBase>>,
                 ExpandRest(k % d, d, FracLimbs) # 0)

\* float(text) for the text of k thousandths
Float(k) == FloatQuotient(k, Thousand)

\* a * w for a whole number w
RECURSIVE MulLimbs(_, _, _, _)
MulLimbs(a, w, n, carry) ==
    IF n > Len(a) THEN <<>>
    ELSE <<(a[n] * w + carry) % LimbBase>>
         \o MulLimbs(a, w, n + 1, (a[n] * w + carry) \div LimbBase)

FloatTimes(a, w) == RoundToFloat(MulLimbs(a, w, 1, 0), FALSE)

FloatAdd(a, b) == RoundToFloat(AddLimbs(a, b, 1, 0), FALSE)
FloatSub(a, b) == RoundToFloat(SubLimbs(a, b, 1, 0), FALSE)
FloatLess(a, b) ==
    \E m \in 1..Len(a) : /\ a[m] < b[m]
                          /\ \A n \in (m + 1)..Len(a) : a[n] = b[n]

\* int(v) of a float that is not negative
FloatInt(v) == v[FracLimbs + 1] + LimbBase * v[FracLimbs + 2]

\* the part of v after the point against a half: -1 below, 0 equal, 1 above
HalfCompare(v) ==
    IF v[FracLimbs] > LimbBase \div 2 THEN 1
    ELSE IF v[FracLimbs] < LimbBase \div 2 THEN -1
    ELSE IF \E m \in 1..(FracLimbs - 1) : v[m] # 0 THEN 1 ELSE 0

---------------------------------------------------------------------------
\* MinerUParser._line_tag.  A coordinate of a bounding box is a number of
\* eighths (the value e stands for e/8), which a float holds exactly.

DigitChars == <<"0", "1", "2", "3", "4", "5", "6", "7", "8", "9">>

\* str(n) for n >= 0
RECURSIVE IntStr(_)
IntStr(n) ==
    IF n < 10 THEN <<DigitChars[n + 1]>>
    ELSE IntStr(n \div 10) \o <<DigitChars[(n % 10) + 1]>>

\* the number of tenths "{:.1f}" prints for the float v: the nearest to v, a
\* tie going to the even digit
Tenths(v) ==
    LET t == MulLimbs(v, 10, 1, 0)
        h == HalfCompare(t)
    IN  IF h > 0 \/ (h = 0 /\ FloatInt(t) % 2 = 1) THEN FloatInt(t) + 1
        ELSE FloatInt(t)

\* "{:.1f}".format(v)
Format1f(v) ==
    IntStr(Tenths(v) \div 10) \o <<".">> \o IntStr(Tenths(v) % 10)

\* pn = [bx["page_idx"] + 1]
PageNumberSame(page_idx) == page_idx
PageNumber(page_idx) == page_idx + 1

\* the pages of page_images hold the page of the box
HasPageImage(bx, pimgs) == pimgs # <<>> /\ Len(pimgs) > bx.page_idx

\* (v / 1000.0) * extent for a coordinate v of e eighths: the quotient is
\* rounded, and then the product
Scaled(e, extent) == FloatTimes(FloatQuotient(e, 8 * Thousand), extent)

\* the coordinates _line_tag writes, as floats <<x0, top, x1, bott>>
TagCoordinates(bx, pimgs) ==
    IF HasPageImage(bx, pimgs)
    THEN LET size == pimgs[bx.page_idx + 1]
         IN  <<Scaled(bx.bbox[1], size[1]), Scaled(bx.bbox[2], size[2]),
               Scaled(bx.bbox[3], size[1]), Scaled(bx.bbox[4], size[2])>>
    ELSE [k \in 1..4 |-> FloatQuotient(bx.bbox[k], 8)]

\* _line_tag(bx): "@@{}\t{:.1f}\t{:.1f}\t{:.1f}\t{:.1f}##" of the page
\* number and x0, x1, top, bott
_line_tag(bx, pimgs) ==
    LET c == TagCoordinates(bx, pimgs)
    IN  <<"@", "@">> \o IntStr(PageNumber(bx.page_idx)) \o <<"\t">>
        \o Format1f(c[1]) \o <<"\t">> \o Format1f(c[3]) \o <<"\t">>
        \o Format1f(c[2]) \o <<"\t">> \o Format1f(c[4]) \o <<"#", "#">>

---------------------------------------------------------------------------
\* MinerUParser.extract_positions.  A parsed coordinate is a number of
\* thousandths (fields have at most three decimals).

\* @@[0-9-]+\t[0-9.\t]+##
TagPattern ==
    Cat(<<Word(<<"@", "@">>), Plus(In(Digits \cup {"-"})), In({"\t"}),
          Plus(In(Digits \cup {".", "\t"})), Word(<<"#", "#">>)>>)

\* re.findall(p, s): the matches from left to right, none overlapping
RECURSIVE FindAllFrom(_, _, _)
FindAllFrom(p, s, i) ==
    IF i > Len(s) THEN <<>>
    ELSE LET ends == Ends(p, s, i)
         IN  IF ends = {} THEN FindAllFrom(p, s, i + 1)
             ELSE LET e == SetMax(ends)
                  IN  <<SubSeq(s, i, e - 1)>> \o FindAllFrom(p, s, e)
re_findall(p, s) == FindAllFrom(p, s, 1)

\* s.strip(c)
RECURSIVE LStripChar(_, _)
LStripChar(s, c) ==
    IF s # <<>> /\ Head(s) = c THEN LStripChar(Tail(s), c) ELSE s
StripChar(s, c) == Reverse(LStripChar(Reverse(LStripChar(s, c)), c))

\* s.split(c): the parts between the places of c
Split(s, c) ==
    LET at == {i \in 1..Len(s) : s[i] = c}
        cut(k) == IF k = 0 THEN 0
                  ELSE IF k > Cardinality(at) THEN Len(s) + 1
                  ELSE CHOOSE i \in at :
                           Cardinality({x \in at : x < i}) = k - 1
    IN  [k \in 1..(Cardinality(at) + 1) |->
            SubSeq(s, cut(k - 1) + 1, cut(k) - 1)]

\* the value of a run of digits; 0 for the empty run
RECURSIVE DigitsValue(_)
DigitsValue(ds) ==
    IF ds = <<>> THEN 0
    ELSE 10 * DigitsValue(SubSeq(ds, 1, Len(ds) - 1))
         + ((CHOOSE d \in 1..10 : DigitChars[d] = ds[Len(ds)]) - 1)

AllDigits(f) == \A k \in 1..Len(f) : f[k] \in Digits

\* float(f) accepts f: of the texts over [0-9.], those with one point at
\* most and a digit
FloatText(f) ==
    LET parts == Split(f, ".")
    IN  /\ Len(parts) <= 2
        /\ \A k \in 1..Len(parts) : AllDigits(parts[k])
        /\ \E k \in 1..Len(f) : f[k] \in Digits

\* float(f), in thousandths
FloatValue(f) ==
    LET parts == Split(f, ".")
        frac == IF Len(parts) = 2 THEN parts[2] ELSE <<>>
        frac3 == SubSeq(frac \o <<"0", "0", "0">>, 1, 3)
    IN  1000 * DigitsValue(parts[1]) + DigitsValue(frac3)

\* int(p) accepts p: of the texts over [0-9], those that are not empty
IntText(p) == p # <<>> /\ AllDigits(p)

NoPosition == [pns |-> <<>>, left |-> 0, right |-> 0, top |-> 0, bottom |-> 0]

\* the body of the loop of extract_positions for one tag: the position, or
\* the exception of the unpacking, of float() or of int()
ParseTag(tag) ==
    LET fields == Split(StripChar(StripChar(tag, "#"), "@"), "\t")
    IN  IF Len(fields) # 5 THEN [raised |-> TRUE, pos |-> NoPosition]
        ELSE IF \E k \in 2..5 : ~FloatText(fields[k])
        THEN [raised |-> TRUE, pos |-> NoPosition]
        ELSE LET pages == Split(fields[1], "-")
             IN  IF \E k \in 1..Len(pages) : ~IntText(pages[k])
                 THEN [raised |-> TRUE, pos |-> NoPosition]
                 ELSE [raised |-> FALSE,
                       pos |-> [pns |-> [k \in 1..Len(pages) |->
                                            DigitsValue(pages[k]) - 1],
                                left |-> FloatValue(fields[2]),
                                right |-> FloatValue(fields[3]),
                                top |-> FloatValue(fields[4]),
                                bottom |-> FloatValue(fields[5])]]

\* extract_positions(txt)
extract_positions(txt) ==
    LET tags == re_findall(TagPattern, txt)
        parsed == [k \in 1..Len(tags) |-> ParseTag(tags[k])]
    IN  IF \E k \in 1..Len(tags) : parsed[k].raised
        THEN [raised |-> TRUE, poss |-> <<>>]
        ELSE [raised |-> FALSE,
              poss |-> [k \in 1..Len(tags) |-> parsed[k].pos]]

---------------------------------------------------------------------------
\* MinerUParser.crop(text, need_position=True).  Lengths are in thousandths
\* of a pixel; a page image is its size <<width, height>> in pixels.

GAP == 6
CONTEXT == 120
MIN_HEIGHT == 2

Least(a, b) == IF a < b THEN a ELSE b
Greatest(a, b) == IF a > b THEN a ELSE b

\* int(v) of a float: towards zero
Trunc(m) == IF m >= 0 THEN m \div Thousand ELSE -((-m) \div Thousand)

ValidPage(p, page_count) == 0 <= p /\ p < page_count

\* the height of page p, in thousandths
PageHeight(pimgs, p) == pimgs[p + 1][2] * Thousand

\* the positions that keep a page index within the page images, each with
\* those indices only
RECURSIVE FilterPositions(_, _)
FilterPositions(poss, page_count) ==
    IF poss = <<>> THEN <<>>
    ELSE LET pos == Head(poss)
             valid_pns == SelectSeq(pos.pns,
                                    LAMBDA p : ValidPage(p, page_count))
             rest == FilterPositions(Tail(poss), page_count)
         IN  IF valid_pns = <<>> THEN rest
             ELSE <<[pos EXCEPT !.pns = valid_pns]>> \o rest

\* right - left and left + max_width have two fractions as operands and are
\* rounded.  The other sums of crop add a whole number to one coordinate, and
\* their whole parts and their order are those of the decimal values.

\* max(np.max([right - left ...]), 6): a difference that is not positive is
\* below 6
MaxWidth(poss) ==
    LET six == Float(GAP * Thousand)
        over == {w \in {FloatSub(Float(poss[k].right), Float(poss[k].left)) :
                           k \in {n \in 1..Len(poss) :
                                      poss[n].right > poss[n].left}} :
                     FloatLess(six, w)}
    IN  IF over = {} THEN six
        ELSE CHOOSE w \in over : \A x \in over : ~FloatLess(w, x)

\* the positions with the context above the first and below the last
WithContext(poss, pimgs) ==
    LET first == poss[1]
        last == poss[Len(poss)]
        last_page_idx == last.pns[Len(last.pns)]
        h == PageHeight(pimgs, last_page_idx)
    IN  <<[pns |-> <<first.pns[1]>>, left |-> first.left,
           right |-> first.right,
           top |-> Greatest(0, first.top - CONTEXT * Thousand),
           bottom |-> Greatest(first.top - GAP * Thousand, 0)]>>
        \o poss
        \o <<[pns |-> <<last_page_idx>>, left |-> last.left,
              right |-> last.right,
              top |-> Least(h, last.bottom + GAP * Thousand),
              bottom |-> Least(h, last.bottom + CONTEXT * Thousand)]>>

\* the heights of the pages before the later pages of a position
RECURSIVE EarlierHeights(_, _)
EarlierHeights(pns, pimgs) ==
    IF pns = <<>> THEN 0
    ELSE (IF ValidPage(Head(pns) - 1, Len(pimgs))
          THEN PageHeight(pimgs, Head(pns) - 1) ELSE 0)
         + EarlierHeights(Tail(pns), pimgs)

\* the boxes cut from the pages after the first page of a position
RECURSIVE LaterBoxes(_, _, _, _, _)
LaterBoxes(pns, left, right, bottom, pimgs) ==
    IF pns = <<>> THEN <<>>
    ELSE LET pn == Head(pns)
         IN  IF ~ValidPage(pn, Len(pimgs))
             THEN LaterBoxes(Tail(pns), left, right, bottom, pimgs)
             ELSE <<[page |-> pn, x0 |-> Trunc(left), y0 |-> 0,
                     x1 |-> FloatInt(right),
                     y1 |-> Trunc(Least(bottom, PageHeight(pimgs, pn)))]>>
                  \o LaterBoxes(Tail(pns), left, right,
                                bottom - PageHeight(pimgs, pn), pimgs)

\* the boxes cut for one position
SegmentBoxes(pos, max_width, pimgs) ==
    LET right == FloatAdd(Float(pos.left), max_width)
        bottom0 == IF pos.bottom <= pos.top
                   THEN pos.top + MIN_HEIGHT * Thousand ELSE pos.bottom
        bottom == bottom0 + EarlierHeights(Tail(pos.pns), pimgs)
    IN  IF ~ValidPage(pos.pns[1], Len(pimgs)) THEN <<>>
        ELSE <<[page |-> pos.pns[1], x0 |-> Trunc(pos.left),
                y0 |-> Trunc(pos.top), x1 |-> FloatInt(right),
                y1 |-> Trunc(Least(bottom,
                                   PageHeight(pimgs, pos.pns[1])))]>>
             \o LaterBoxes(Tail(pos.pns), pos.left, right,
                           bottom - PageHeight(pimgs, pos.pns[1]), pimgs)

\* Image.crop refuses a box whose right or lower edge lies before its left
\* or upper edge
BoxRefused(b) == b.x1 < b.x0 \/ b.y1 < b.y0

RECURSIVE TotalHeight(_)
TotalHeight(bs) ==
    IF bs = <<>> THEN 0
    ELSE (Head(bs).y1 - Head(bs).y0) + GAP + TotalHeight(Tail(bs))

\* the loop over the positions and the assembly of the picture
CropPicture(poss0, pimgs, pfrom) ==
    LET max_width == MaxWidth(poss0)
        poss == WithContext(poss0, pimgs)
        segs == [k \in 1..Len(poss) |->
                    SegmentBoxes(poss[k], max_width, pimgs)]
        imgs == Flatten(segs)
        inner == Flatten(SubSeq(segs, 2, Len(segs) - 1))
    IN  IF \E k \in 1..Len(imgs) : BoxRefused(imgs[k]) THEN CropRaised
        ELSE IF imgs = <<>> THEN CropNone
        ELSE [kind |-> "picture",
              size |-> <<SetMax({imgs[k].x1 - imgs[k].x0 :
                                     k \in 1..Len(imgs)}),
                         TotalHeight(imgs)>>,
              parts |-> imgs,
              positions |-> [k \in 1..Len(inner) |->
                                <<inner[k].page + pfrom, inner[k].x0,
                                  inner[k].x1, inner[k].y0, inner[k].y1>>]]

\* crop(text, need_position=True)
crop(txt, pimgs, pfrom) ==
    LET ex == extract_positions(txt)
    IN  IF ex.raised THEN CropRaised
        ELSE IF ex.poss = <<>> THEN CropNone
        ELSE IF pimgs = <<>> THEN CropNone
        ELSE LET poss == FilterPositions(ex.poss, Len(pimgs))
             IN  IF poss = <<>> THEN CropNone
                 ELSE CropPicture(poss, pimgs, pfrom)

---------------------------------------------------------------------------
\* The inputs of the tag functions

MaxBoxes == 2

\* self.page_images: none, one page, two pages
PageImagePool == {<<>>, <<<<2, 3>>>>, <<<<20, 30>>, <<20, 10>>>>}
PageFroms == {0, 1}

\* a block MinerU reports: its type, page_idx, bbox as <<x0, top, x1, bott>>
\* in eighths, and the fields that hold its content (a key that is absent
\* reads as the empty value of its default)
Block ==
    [type |-> "text", page_idx |-> 0, bbox |-> <<0, 0, 0, 0>>, text |-> <<>>,
     table_body |-> <<>>, table_caption |-> <<>>, table_footnote |-> <<>>,
     image_caption |-> <<>>, image_footnote |-> <<>>,
     code_body |-> <<>>, code_caption |-> <<>>, list_items |-> <<>>]

\* one block of each type, on pages with and without an image; scaled to a
\* page, the coordinates of the table and of the image come to lie half-way
\* between two tenths
BoxPool ==
    {[Block EXCEPT !.bbox = <<2, 8, 22, 24>>, !.text = <<"s">>],
     [Block EXCEPT !.type = "equation", !.page_idx = 11,
                   !.bbox = <<6, 0, 10, 1>>, !.text = <<"t">>],
     [Block EXCEPT !.type = "code", !.bbox = <<1000, 2000, 3000, 4000>>,
                   !.code_body = <<"u">>, !.code_caption = <<<<"c">>>>],
     [Block EXCEPT !.type = "list", !.page_idx = 1,
                   !.bbox = <<0, 4000, 8000, 8000>>,
                   !.list_items = <<<<"v">>, <<"l">>>>],
     [Block EXCEPT !.bbox = <<4, 8, 12, 16>>],
     [Block EXCEPT !.type = "discarded", !.bbox = <<2, 8, 22, 24>>,
                   !.text = <<"d">>],
     [Block EXCEPT !.type = "table", !.bbox = <<20, 40, 60, 120>>,
                   !.table_body = <<" ">>],
     [Block EXCEPT !.type = "image", !.page_idx = 1,
                   !.bbox = <<40, 8, 120, 200>>, !.image_caption = <<<<"i">>>>]}

\* texts that come before the tagged blocks: nothing, plain text, and text
\* that holds something like a tag; the last holds two tags, of widths
\* 8.2 - 0.2 and 1
RawSections ==
    {<<>>,
     <<"x">>,
     <<"@", "@", "1", "\t", "2", ".", "0", "\t", "3", ".", "0", "#", "#">>,
     <<"@", "@", "1", "\t", "1", ".", "2", ".", "3", "\t", "1", "\t", "1",
       "\t", "1", "#", "#">>,
     <<"@", "@", "1", "-", "-", "2", "\t", "1", "\t", "2", "\t", "3", "\t",
       "4", "#", "#">>,
     <<"@", "@", "a", "\t", "1", "#", "#">>,
     <<"@", "@", "0", "\t", "1", "\t", "2", "\t", "3", "\t", "4", "#", "#">>,
     <<"@", "@", "9", "\t", "1", "\t", "2", "\t", "3", "\t", "4", "#", "#">>,
     <<"@", "@", "1", "-", "2", "\t", "1", "\t", "9", ".", "5", "\t", "3",
       "\t", "4", "0", "#", "#">>,
     <<"@", "@", "1", "\t", "1", ".", "\t", ".", "5", "\t", "3", "\t", "4",
       "#", "#">>,
     <<"@", "@", "1", "\t", "0", ".", "2", "\t", "8", ".", "2", "\t", "1",
       "\t", "2", "#", "#",
       "@", "@", "1", "\t", "0", "\t", "1", "\t", "1", "\t", "2", "#", "#">>
}

---------------------------------------------------------------------------
\* The tag functions as a state machine: the sections of the blocks are
\* written one after another in "paper" mode, each followed by its tag; then
\* the positions are extracted from the text and the text is cropped.  The
\* page images may be loaded anew between these calls.  The text holds at
\* most MaxBoxes pieces, the text before the blocks being one.

\* the local section of _transfer_to_sections before its first assignment;
\* an assigned section s is <<s>>
Unbound == <<>>

TagInit ==
    /\ pc = "line_tag"
    /\ page_images \in PageImagePool
    /\ page_from \in PageFroms
    /\ section0 \in RawSections
    /\ boxes \in SeqsUpTo(BoxPool, MaxBoxes)
    /\ Len(boxes) + (IF section0 = <<>> THEN 0 ELSE 1) <= MaxBoxes
    /\ section = Unbound
    /\ tag_text = section0
    /\ box_i = 0
    /\ found = NotExtracted
    /\ cropped = CropNone
    /\ TagAlone

\* __images__(fnm, page_from=...): self.page_images and self.page_from are
\* assigned; a file that cannot be read leaves no page images.  It is called
\* between the other calls, not within the loop of _transfer_to_sections
__images__ ==
    /\ (pc = "line_tag" /\ box_i = 0) \/ pc = "crop"
    /\ page_images' \in PageImagePool
    /\ page_from' \in PageFroms
    /\ <<page_images', page_from'>> # <<page_images, page_from>>
    /\ UNCHANGED <<pc, boxes, section0, section, tag_text, box_i, found,
                   cropped>>
    /\ UNCHANGED notTagVars

FAILED_TO_PARSE_TABLE ==
    <<"F", "A", "I", "L", "E", "D", " ", "T", "O", " ", "P", "A", "R", "S",
      "E", " ", "T", "A", "B", "L", "E">>

\* match output["type"]: the section after the statement, for the section
\* sec before it; the type "discarded" assigns nothing
Matched(output, sec) ==
    CASE output.type \in {"text", "equation"} -> <<output.text>>
      [] output.type = "table" ->
             LET body == output.table_body
                             \o Join(output.table_caption, <<"\n">>)
                             \o Join(output.table_footnote, <<"\n">>)
             IN  <<IF Strip(body) = <<>> THEN FAILED_TO_PARSE_TABLE
                   ELSE body>>
      [] output.type = "image" ->
             <<Join(output.image_caption, <<>>) \o <<"\n">>
                   \o Join(output.image_footnote, <<>>)>>
      [] output.type = "code" ->
             <<output.code_body \o Join(output.code_caption, <<"\n">>)>>
      [] output.type = "list" -> <<Join(output.list_items, <<"\n">>)>>
      [] OTHER -> sec

\* the text of the section _transfer_to_sections appends for a block in
\* "paper" mode: section + self._line_tag(output) for a section that is not
\* empty; an empty section goes to the else branch, where the tag is an
\* element of its own and the text stays empty
PaperSection(sec, bx, pimgs) ==
    IF sec # <<>> THEN sec \o _line_tag(bx, pimgs) ELSE sec

\* one turn of the loop of _transfer_to_sections; reading a section that
\* was never assigned raises UnboundLocalError and ends the call
LineTagStep ==
    /\ pc = "line_tag"
    /\ box_i < Len(boxes)
    /\ LET output == boxes[box_i + 1]
           sec == Matched(output, section)
       IN  IF sec = Unbound
           THEN /\ pc' = "transfer_raised"
                /\ UNCHANGED <<section, tag_text, box_i>>
           ELSE /\ section' = sec
                /\ tag_text' = tag_text
                                   \o PaperSection(sec[1], output, page_images)
                /\ box_i' = box_i + 1
                /\ UNCHANGED pc
    /\ UNCHANGED <<boxes, page_images, page_from, section0, found, cropped>>
    /\ UNCHANGED notTagVars

ExtractPositions ==
    /\ pc = "line_tag"
    /\ box_i = Len(boxes)
    /\ found' = extract_positions(tag_text)
    /\ pc' = "crop"
    /\ UNCHANGED <<boxes, page_images, page_from, section0, section, tag_text,
                   box_i, cropped>>
    /\ UNCHANGED notTagVars

Crop ==
    /\ pc = "crop"
    /\ cropped' = crop(tag_text, page_images, page_from)
    /\ pc' = "tag_done"
    /\ UNCHANGED <<boxes, page_images, page_from, section0, section, tag_text,
                   box_i, found>>
    /\ UNCHANGED notTagVars

TagNext ==
    \/ __images__
    \/ LineTagStep
    \/ ExtractPositions
    \/ Crop

SpecTag == TagInit /\ [][TagNext]_vars

---------------------------------------------------------------------------
\* Claims about the position tags

\* a parsed coordinate t (thousandths) is the float v at one-decimal
\* precision: a whole number of tenths, at most 0.05 from v
OneDecimalOf(t, v) ==
    LET ten == MulLimbs(v, 10, 1, 0)
        h == HalfCompare(ten)
    IN  /\ t % 100 = 0
        /\ \/ t \div 100 = FloatInt(ten) /\ h <= 0
           \/ t \div 100 = FloatInt(ten) + 1 /\ h >= 0

\* the sections of the blocks bs in turn, for the section sec before them
RECURSIVE SectionsOf(_, _)
SectionsOf(bs, sec) ==
    IF bs = <<>> THEN <<>>
    ELSE <<Matched(Head(bs), sec)>>
         \o SectionsOf(Tail(bs), Matched(Head(bs), sec))

\* what extract_positions finds in the tag of box bx alone
RoundTrip(bx) == extract_positions(_line_tag(bx, page_images))

\* C9: position tags round-trip.  extract_positions applied to the tag that
\* _line_tag produces for a block on page p (from 0) returns exactly one
\* position, with page list [p] (the tag itself carries p + 1) and with
\* left, right, top, bottom equal to the encoded x0, x1, top, bott at
\* one-decimal precision; and from a text of several tags it returns one
\* entry for every tag, in the order of the tags.
C9_TagRoundTrip ==
    pc = "crop" =>
        /\ \A bx \in {boxes[k] : k \in 1..Len(boxes)} :
               LET c == TagCoordinates(bx, page_images)
                   tag == _line_tag(bx, page_images)
                   rt == extract_positions(tag)
               IN  /\ IsPrefix(<<"@", "@">> \o IntStr(bx.page_idx + 1)
                                   \o <<"\t">>,
                               tag)
                   /\ ~rt.raised
                   /\ Len(rt.poss) = 1
                   /\ rt.poss[1].pns = <<bx.page_idx>>
                   /\ OneDecimalOf(rt.poss[1].left, c[1])
                   /\ OneDecimalOf(rt.poss[1].right, c[3])
                   /\ OneDecimalOf(rt.poss[1].top, c[2])
                   /\ OneDecimalOf(rt.poss[1].bottom, c[4])
        /\ re_findall(TagPattern, section0) = <<>> =>
               LET tags == re_findall(TagPattern, tag_text)
               IN  /\ ~found.raised
                   /\ Len(tags)
                          = Cardinality({k \in 1..Len(boxes) :
                                SectionsOf(boxes, Unbound)[k] # <<<<>>>>})
                   /\ Len(found.poss) = Len(tags)
                   /\ \A k \in 1..Len(tags) :
                          found.poss[k] = ParseTag(tags[k]).pos

\* two tags of blocks on different pages were read back, one of them of a
\* block scaled to its page image with a coordinate that the tag rounds
C9_Witness ==
    /\ pc = "crop"
    /\ Len(boxes) = MaxBoxes
    /\ Len(found.poss) = MaxBoxes
    /\ found.poss[1].pns # found.poss[2].pns
    /\ \E k \in 1..Len(boxes) :
           /\ HasPageImage(boxes[k], page_images)
           /\ Float(RoundTrip(boxes[k]).poss[1].left)
                  # TagCoordinates(boxes[k], page_images)[1]

\* no valid position remains for crop: extract_positions gave no list, or
\* no position of the list lies on a page that has an image
NoValidPosition ==
    \/ found.raised
    \/ FilterPositions(found.poss, Len(page_images)) = <<>>

\* C10: a malformed position tag never causes a failure.  For every text,
\* extract_positions returns a list instead of raising, and crop with
\* need_position=True returns (None, None) when no valid position remains.
C10_MalformedTagIgnored ==
    /\ pc \in {"crop", "tag_done"} => ~found.raised
    /\ (pc = "tag_done" /\ NoValidPosition) => cropped = CropNone

\* C11: when both context sizes are at most 0, or the chunk list is empty,
\* attach_media_context returns the list as it was passed in: no text or
\* token field of a chunk is changed and the order is kept, whatever
\* position metadata the chunks carry.
C11_NothingToAttach ==
    (/\ pc = "done"
     /\ \/ chunks0 = <<>>
        \/ table_context_size <= 0 /\ image_context_size <= 0)
    => chunks = chunks0

\* the function returned a list with an image next to a text and with
\* position metadata that asks for another order, both sizes being 0
C11_Witness ==
    /\ pc = "done"
    /\ table_context_size <= 0
    /\ image_context_size <= 0
    /\ PositionedEntries(chunks0) # {}
    /\ OrderedIndices(chunks0) # [k \in 1..Len(chunks0) |-> k]
    /\ \E k \in 1..Len(chunks0) : IsMedia(chunks0[k])
    /\ \E k \in 1..Len(chunks0) : get_text(chunks0[k]) # <<>>
    /\ chunks = chunks0

\* a chunk that has a page and a top
HasPlace(ck) ==
    extract_position(ck)[1] # NoInt /\ extract_position(ck)[2] # NoInt

\* (page, top, left) of a chunk in halves, left 0 when absent
PlaceKey(ck) ==
    <<extract_position(ck)[1][1], extract_position(ck)[2][1],
      IF extract_position(ck)[3] # NoInt THEN extract_position(ck)[3][1]
      ELSE 0>>

\* (a, i) comes before (b, j) in the order of the triples, the original index
\* breaking ties
TripleBefore(a, i, b, j) ==
    \/ a[1] < b[1]
    \/ a[1] = b[1] /\ a[2] < b[2]
    \/ a[1] = b[1] /\ a[2] = b[2] /\ a[3] < b[3]
    \/ a = b /\ i < j

\* the returned chunk at place k is the chunk passed in at index i: what
\* attach_media_context never writes is as it was
CameFrom(k, i) ==
    /\ chunks[k].doc_type_kwd = chunks0[i].doc_type_kwd
    /\ chunks[k].image = chunks0[i].image
    /\ extract_position(chunks[k]) = extract_position(chunks0[i])

\* the call went past the early return and has returned
Attached ==
    /\ pc = "done"
    /\ ~ ReturnsEarly(chunks0, table_context_size, image_context_size)

\* ordered_indices is a permutation of the indices and the returned list
\* follows it
FollowsOrder ==
    /\ Len(ordered_indices) = Len(chunks0)
    /\ Len(chunks) = Len(chunks0)
    /\ {ordered_indices[k] : k \in 1..Len(ordered_indices)} = 1..Len(chunks0)
    /\ \A k \in 1..Len(chunks) : CameFrom(k, ordered_indices[k])

\* positioned chunks first, the others after them in their original order;
\* the original order when no chunk is positioned
PositionedFirst ==
    /\ \A a \in 1..Len(chunks) : \A b \in 1..Len(chunks) :
           a < b /\ HasPlace(chunks[b]) => HasPlace(chunks[a])
    /\ \A a \in 1..Len(chunks) : \A b \in 1..Len(chunks) :
           a < b /\ ~ HasPlace(chunks[a])
               => ordered_indices[a] < ordered_indices[b]
    /\ (\A i \in 1..Len(chunks0) : ~ HasPlace(chunks0[i]))
           => ordered_indices = [k \in 1..Len(chunks0) |-> k]

\* C12: when a chunk list goes past the early return, the returned list
\* holds the chunks that have a page and a top first, in ascending order of
\* (page, top, left, original index), and after them the chunks without a
\* position in their original order; when no chunk has a position the
\* original order is kept.
C12_SortedByPosition ==
    Attached =>
        /\ FollowsOrder
        /\ PositionedFirst
        /\ \A a \in 1..Len(chunks) : \A b \in 1..Len(chunks) :
               a < b /\ HasPlace(chunks[b])
                   => TripleBefore(PlaceKey(chunks[a]), ordered_indices[a],
                                   PlaceKey(chunks[b]), ordered_indices[b])

\* the whole parts of a triple of halves
IntKey(t) == <<IntPart(t[1]), IntPart(t[2]), IntPart(t[3])>>

\* what the sort of line 522 establishes: the order of
\* (int(page), int(top), int(left), original index), in which positions
\* that differ only after the decimal point keep their original order
SortedByWholePosition ==
    Attached =>
        /\ FollowsOrder
        /\ PositionedFirst
        /\ \A a \in 1..Len(chunks) : \A b \in 1..Len(chunks) :
               a < b /\ HasPlace(chunks[b])
                   => TripleBefore(IntKey(PlaceKey(chunks[a])),
                                   ordered_indices[a],
                                   IntKey(PlaceKey(chunks[b])),
                                   ordered_indices[b])

---------------------------------------------------------------------------
\* naive_merge_with_images

\* naive_merge(sections, chunk_token_num, delimiter, overlapped_percent) as a
\* function: cks and tk_nums after the first k sections in default mode
RECURSIVE AddChunks(_, _, _, _)
AddChunks(secs, k, ctn, p) ==
    IF k = 0 THEN << << <<>> >>, <<0>> >>
    ELSE LET r == AddChunks(secs, k - 1, ctn, p)
         IN  add_chunk(r[1], r[2], <<"\n">> \o secs[k].text, secs[k].pos,
                       ctn, p)

\* cks after the first k sections in custom-delimiter mode
RECURSIVE CustomSplit(_, _, _)
CustomSplit(secs, k, D) ==
    IF k = 0 THEN <<>>
    ELSE CustomSplit(secs, k - 1, D)
             \o CustomChunks(re_split(secs[k].text, D), secs[k].pos, D)

naive_merge(secs, ctn, delim, p) ==
    IF secs = <<>> THEN <<>>
    ELSE IF custom_delimiters(delim) # {}
         THEN CustomSplit(secs, Len(secs), custom_delimiters(delim))
         ELSE AddChunks(secs, Len(secs), ctn, p)[1]

\* overlap_start = int(len(overlapped) * (100 - overlapped_percent) / 100.)
OverlapStartWhole(len, p) == 0
overlap_start(len, p) == (len * (100 - p)) \div 100

\* naive_merge_with_images.add_chunk(t, image, pos): <<cks, result_images,
\* tk_nums>> after the call; fresh is the id of an image concat_img creates
add_chunk_with_image(cs, imgs, tks, t, image, pos0, ctn, p, fresh) ==
    LET tnum == num_tokens_from_string(t)
        pos == IF tnum < 8 THEN <<>> ELSE pos0
        n == Len(cs)
    IN  IF cs[n] = <<>> \/ tks[n] * 100 > ctn * (100 - p)
        THEN LET overlapped == remove_tag(cs[n])
                 t2 == SliceFrom(overlapped,
                                 overlap_start(Len(overlapped), p)) \o t
                 t3 == IF Find(t2, pos) < 0 THEN t2 \o pos ELSE t2
             IN  <<Append(cs, t3), Append(imgs, image), Append(tks, tnum)>>
        ELSE LET t2 == IF Find(cs[n], pos) < 0 THEN t \o pos ELSE t
             IN  <<[cs EXCEPT ![n] = @ \o t2],
                   [imgs EXCEPT ![n] = IF @ = NoImage THEN image
                                       ELSE concat_img(@, image, fresh)],
                   [tks EXCEPT ![n] = @ + tnum]>>

\* the chunks the custom-delimiter loop makes of one text: every sub_sec
\* that is not a delimiter, with "\n" in front and the tag behind
RECURSIVE TextSegments(_, _, _)
TextSegments(split_sec, text_pos, D) ==
    IF split_sec = <<>> THEN <<>>
    ELSE LET sub_sec == Head(split_sec)
             text_seg == <<"\n">> \o sub_sec
             local_pos == IF num_tokens_from_string(text_seg) < 8 THEN <<>>
                          ELSE text_pos
         IN  (IF sub_sec \in D THEN <<>>
              ELSE IF local_pos # <<>> /\ Find(text_seg, local_pos) < 0
                   THEN <<text_seg \o local_pos>>
                   ELSE <<text_seg>>)
             \o TextSegments(Tail(split_sec), text_pos, D)

\* the image that goes with the k-th text: one pixel, black for odd k
ImageOf(k) == [id |-> k, size |-> <<1, 1>>, px |-> <<k % 2>>]

\* the id of the image the k-th call of add_chunk may create
StackedId(k) == 100 + k

\* the image lists for n texts: no image, an image for every text, an image
\* for every other text, and a list that is one image short
ImageLists(n) ==
    { [k \in 1..n |-> NoImage],
      [k \in 1..n |-> ImageOf(k)],
      [k \in 1..n |-> IF k % 2 = 1 THEN ImageOf(k) ELSE NoImage] }
    \cup (IF n = 0 THEN {} ELSE {[k \in 1..(n - 1) |-> ImageOf(k)]})

WithImagesInit ==
    /\ pc = "naive_merge_with_images"
    /\ wi_texts \in SeqsUpTo(SectionPool, MaxSections)
    /\ wi_images \in ImageLists(Len(wi_texts))
    /\ wi_chunk_token_num \in ChunkTokenNums
    /\ wi_delimiter \in DelimiterPool
    /\ wi_overlapped_percent \in OverlappedPercents
    /\ wi_cks = <<>>
    /\ wi_result_images = <<>>
    /\ wi_tk_nums = <<>>
    /\ wi_i = 0
    /\ WithImagesAlone

\* entry: [], [] for no texts or lists of different lengths; otherwise the
\* three lists are set up for the mode the delimiter selects
WithImagesEnter ==
    /\ pc = "naive_merge_with_images"
    /\ IF wi_texts = <<>> \/ Len(wi_texts) # Len(wi_images)
       THEN /\ pc' = "done"
            /\ UNCHANGED <<wi_cks, wi_result_images, wi_tk_nums, wi_i>>
       ELSE LET custom == custom_delimiters(wi_delimiter) # {}
            IN  /\ pc' = IF custom THEN "with_images_custom"
                         ELSE "with_images_default"
                /\ wi_cks' = IF custom THEN <<>> ELSE << <<>> >>
                /\ wi_result_images' = IF custom THEN <<>> ELSE <<NoImage>>
                /\ wi_tk_nums' = IF custom THEN <<>> ELSE <<0>>
                /\ wi_i' = 1
    /\ UNCHANGED <<wi_texts, wi_images, wi_chunk_token_num, wi_delimiter,
                   wi_overlapped_percent>>
    /\ UNCHANGED notWithImagesVars

\* for text, image in zip(texts, images): add_chunk("\n" + text_str, image,
\* text_pos)
WithImagesAddChunk ==
    /\ pc = "with_images_default"
    /\ wi_i <= Len(wi_texts)
    /\ LET r == add_chunk_with_image(wi_cks, wi_result_images, wi_tk_nums,
                                     <<"\n">> \o wi_texts[wi_i].text,
                                     wi_images[wi_i], wi_texts[wi_i].pos,
                                     wi_chunk_token_num,
                                     wi_overlapped_percent, StackedId(wi_i))
       IN  /\ wi_cks' = r[1]
           /\ wi_result_images' = r[2]
           /\ wi_tk_nums' = r[3]
    /\ wi_i' = wi_i + 1
    /\ UNCHANGED <<pc, wi_texts, wi_images, wi_chunk_token_num, wi_delimiter,
                   wi_overlapped_percent>>
    /\ UNCHANGED notWithImagesVars

\* the body of the custom-delimiter loop for one text and its image
WithImagesCustomSplit ==
    /\ pc = "with_images_custom"
    /\ wi_i <= Len(wi_texts)
    /\ LET D == custom_delimiters(wi_delimiter)
           new == TextSegments(re_split(wi_texts[wi_i].text, D),
                               wi_texts[wi_i].pos, D)
       IN  /\ wi_cks' = wi_cks \o new
           /\ wi_result_images' =
                  wi_result_images \o [k \in 1..Len(new) |-> wi_images[wi_i]]
           /\ wi_tk_nums' = wi_tk_nums \o TokenCounts(new)
    /\ wi_i' = wi_i + 1
    /\ UNCHANGED <<pc, wi_texts, wi_images, wi_chunk_token_num, wi_delimiter,
                   wi_overlapped_percent>>
    /\ UNCHANGED notWithImagesVars

\* return cks, result_images
WithImagesReturn ==
    /\ pc \in {"with_images_default", "with_images_custom"}
    /\ wi_i > Len(wi_texts)
    /\ pc' = "done"
    /\ UNCHANGED withImagesVars
    /\ UNCHANGED notWithImagesVars

WithImagesNext ==
    \/ WithImagesEnter
    \/ WithImagesAddChunk
    \/ WithImagesCustomSplit
    \/ WithImagesReturn

SpecWithImages == WithImagesInit /\ [][WithImagesNext]_vars

\* C13: for texts with an equally long image list, the text chunks of
\* naive_merge_with_images are the chunks of naive_merge on the same texts,
\* chunk_token_num, delimiter and overlapped_percent: after every text the
\* list built so far is the list naive_merge has built after that text, and
\* the list returned is the list naive_merge returns.
C13_SameTextChunks ==
    Len(wi_images) = Len(wi_texts) =>
        /\ pc = "with_images_default" =>
               wi_cks = AddChunks(wi_texts, wi_i - 1, wi_chunk_token_num,
                                  wi_overlapped_percent)[1]
        /\ pc = "with_images_custom" =>
               wi_cks = CustomSplit(wi_texts, wi_i - 1,
                                    custom_delimiters(wi_delimiter))
        /\ pc = "done" =>
               wi_cks = naive_merge(wi_texts, wi_chunk_token_num,
                                    wi_delimiter, wi_overlapped_percent)

\* a returned list in default mode in which two texts were merged into one
\* chunk, their images stacked, and a later chunk opened with a carry-over
C13_Witness ==
    /\ pc = "done"
    /\ custom_delimiters(wi_delimiter) = {}
    /\ wi_overlapped_percent > 0
    /\ Len(wi_cks) = 3
    /\ \E k \in 1..Len(wi_result_images) : wi_result_images[k].id > 100
    /\ wi_cks[3][1] # "\n"
    /\ wi_cks = naive_merge(wi_texts, wi_chunk_token_num, wi_delimiter,
                            wi_overlapped_percent)

---------------------------------------------------------------------------
\* qbullets_category

Wen == "U95EE"
OneOrTwoDigits == Rep(In(Digits), 1, 2)
Question == Word(<<"Q", "U", "E", "S", "T", "I", "O", "N", " ">>)

QUESTION_PATTERN == <<
    Cat(<<DiCnNum, In({Wen})>>),
    Cat(<<DiCnNum, In({Tiao})>>),
    ParenCn,
    Cat(<<DiNum, In({Wen})>>),
    Cat(<<DiNum, In({Tiao})>>),
    Cat(<<OneOrTwoDigits, In({".", " ", Dun})>>),
    Cat(<<Plus(In(CnNumerals)), In({" ", Dun})>>),
    Cat(<<In({"(", LParenWide}), OneOrTwoDigits, In({")", RParenWide})>>),
    Cat(<<Question,
          Or(<<Word(<<"O", "N", "E">>), Word(<<"T", "W", "O">>),
               Word(<<"T", "H", "R", "E", "E">>),
               Word(<<"F", "O", "U", "R">>), Word(<<"F", "I", "V", "E">>),
               Word(<<"S", "I", "X">>), Word(<<"S", "E", "V", "E", "N">>),
               Word(<<"E", "I", "G", "H", "T">>),
               Word(<<"N", "I", "N", "E">>), Word(<<"T", "E", "N">>)>>)>>),
    Cat(<<Question,
          Or(<<Cat(<<Plus(In({"I"})), Opt(In({"V"}))>>),
               Cat(<<In({"V"}), Star(In({"I"}))>>),
               Word(<<"X", "I">>), Word(<<"I", "X">>), In({"X"})>>)>>),
    Cat(<<Question, Plus(In(Digits))>> ) >>

\* if re.match(pro, sec) and not not_bullet(sec)
QuestionHit(pro, sec) == re_match(pro, sec) /\ ~not_bullet(sec)

\* the loop over the sections for one pattern: hits[i] += 1 and break at the
\* first section that hits
RECURSIVE FirstHit(_, _)
FirstHit(pro, secs) ==
    IF secs = <<>> THEN 0
    ELSE IF QuestionHit(pro, Head(secs)) THEN 1
    ELSE FirstHit(pro, Tail(secs))

\* one round of the second loop: <<res, maximum>> after pattern i with h hits
QuestionScan(r, mx, i, h) == IF h <= mx THEN <<r, mx>> ELSE <<i, h>>

\* QUESTION_PATTERN[res]: the index from 0 of the pattern that is returned
\* with res; index -1 is the last pattern
ReturnedPattern(r) == IF r < 0 THEN Len(QUESTION_PATTERN) + r ELSE r

QuestionLinePool ==
    {<<"1", ".", " ", "a">>,
     <<" ", "1", ".", " ", "a">>,
     <<"Q", "U", "E", "S", "T", "I", "O", "N", " ", "1">>,
     <<Di, "1", Wen>>,
     <<LParenWide, "U4E00", RParenWide>>,
     <<"3", " ", Ge>>,
     <<"a", "b", "c">>}

\* qbullets_category as a state machine: one step per pattern in the
\* counting loop, then one step per pattern in the loop that picks the result

QuestionInit ==
    /\ pc = "question_hits"
    /\ sample \in SeqsUpTo(QuestionLinePool, MaxSample)
    /\ hits = [i \in 1..Len(QUESTION_PATTERN) |-> 0]
    /\ style_i = 0
    /\ maximum = 0
    /\ res = -1
    /\ BulletAlone

\* for i, pro in enumerate(QUESTION_PATTERN)
QuestionHitsStep ==
    /\ pc = "question_hits"
    /\ style_i < Len(QUESTION_PATTERN)
    /\ hits' = [hits EXCEPT
                   ![style_i + 1] = @ + FirstHit(QUESTION_PATTERN[style_i + 1],
                                                 sample)]
    /\ IF style_i + 1 < Len(QUESTION_PATTERN)
       THEN style_i' = style_i + 1 /\ pc' = pc
       ELSE style_i' = 0 /\ pc' = "question_scan"
    /\ UNCHANGED <<sample, maximum, res>>
    /\ UNCHANGED notBulletVars

\* for i, h in enumerate(hits); after the last pattern the function returns
\* res, QUESTION_PATTERN[res]
QuestionScanStep ==
    /\ pc = "question_scan"
    /\ style_i < Len(hits)
    /\ LET n == QuestionScan(res, maximum, style_i, hits[style_i + 1])
       IN  res' = n[1] /\ maximum' = n[2]
    /\ style_i' = style_i + 1
    /\ pc' = IF style_i + 1 < Len(hits) THEN pc ELSE "qbullets_done"
    /\ UNCHANGED <<sample, hits>>
    /\ UNCHANGED notBulletVars

QuestionNext ==
    \/ QuestionHitsStep
    \/ QuestionScanStep

SpecQuestions == QuestionInit /\ [][QuestionNext]_vars

\* the number of fragments of the sample that match pattern i (from 0) and
\* that not_bullet does not reject
QuestionScore(i) ==
    Cardinality({k \in 1..Len(sample) :
                    /\ re_match(QUESTION_PATTERN[i + 1], sample[k])
                    /\ ~not_bullet(sample[k])})

\* C15: qbullets_category scores each pattern of the Q&A catalog by the
\* number of sample fragments that match it and that not_bullet does not
\* reject, and returns the first index with the strictly greatest score, or
\* -1 when every score is zero.
C15_FirstMaximalQuestionPattern ==
    pc = "qbullets_done" =>
        LET I == 0..(Len(QUESTION_PATTERN) - 1)
        IN  /\ \A i \in I : hits[i + 1] = QuestionScore(i)
            /\ IF \A i \in I : QuestionScore(i) = 0 THEN res = -1
               ELSE /\ res \in I
                    /\ \A i \in I : QuestionScore(i) <= QuestionScore(res)
                    /\ \A i \in I : i < res =>
                           QuestionScore(i) < QuestionScore(res)

\* what the loops establish: a pattern scores 1 when some fragment hits it
\* and 0 otherwise, and the first pattern that scores 1 is returned
FirstQuestionPatternHit ==
    pc = "qbullets_done" =>
        LET I == 0..(Len(QUESTION_PATTERN) - 1)
        IN  /\ \A i \in I :
                   hits[i + 1] = IF QuestionScore(i) > 0 THEN 1 ELSE 0
            /\ IF \A i \in I : QuestionScore(i) = 0 THEN res = -1
               ELSE /\ res \in I
                    /\ QuestionScore(res) > 0
                    /\ \A i \in I : i < res => QuestionScore(i) = 0

---------------------------------------------------------------------------
\* title_frequency, tree_merge and hierarchical_merge

\* BULLET_PATTERN[bull]; bull = -1 is the last style
StylePatterns(b) ==
    BULLET_PATTERN[IF b < 0 THEN Len(BULLET_PATTERN) + b + 1 ELSE b + 1]

\* t.split("@")[0].strip()
VisibleHead(t) == Strip(Split(t, "@")[1])

\* the pre-filter of tree_merge and hierarchical_merge: t and
\* len(t.split("@")[0].strip()) > 1 and not re.match(r"[0-9]+$", ...)
KeepsFragment(sec) ==
    /\ sec.text # <<>>
    /\ Len(VisibleHead(sec.text)) > 1
    /\ \E k \in 1..Len(VisibleHead(sec.text)) :
           VisibleHead(sec.text)[k] \notin Digits

\* re.search(r"(title|head)", layout)
IsTitleLayout(layout) ==
    \/ Find(layout, <<"t", "i", "t", "l", "e">>) >= 0
    \/ Find(layout, <<"h", "e", "a", "d">>) >= 0

\* len(txt.split())
WordCount(txt) ==
    Cardinality({k \in 1..Len(txt) :
                    /\ txt[k] \notin WhiteSpace
                    /\ k = 1 \/ txt[k - 1] \in WhiteSpace})

\* not_title(txt)
not_title(txt) ==
    IF re_match(Cat(<<DiCnNum, In({Tiao})>>), txt) THEN FALSE
    ELSE IF WordCount(txt) > 12 \/ (Find(txt, <<" ">>) < 0 /\ Len(txt) >= 32)
    THEN TRUE
    ELSE \E k \in 1..Len(txt) :
             txt[k] \in {",", ";", "UFF0C", "U3002", "UFF1B", "UFF01", "!"}

\* the index from 0 of the first pattern of the style that matches, or -1
FirstPattern(b, stripped) ==
    LET m == {j \in 1..Len(StylePatterns(b)) :
                 re_match(StylePatterns(b)[j], stripped)}
    IN  IF m = {} THEN -1 ELSE (CHOOSE j \in m : \A k \in m : j <= k) - 1

\* the level title_frequency gives a section
TitleLevel(b, sec) ==
    LET bullets_size == Len(StylePatterns(b))
        j == FirstPattern(b, Strip(sec.text))
    IN  IF j >= 0 /\ ~not_bullet(sec.text) THEN j
        ELSE IF IsTitleLayout(sec.layout)
                /\ ~not_title(Split(sec.text, "@")[1])
        THEN bullets_size
        ELSE bullets_size + 1

\* the first level <= bullets_size in the order of
\* sorted(Counter(levels).items(), key=lambda x: x[1] * -1): the most
\* frequent one, the one met first among equally frequent ones
MostLevel(levels, bullets_size) ==
    LET count(l) == Cardinality({i \in 1..Len(levels) : levels[i] = l})
        first(l) == CHOOSE i \in 1..Len(levels) :
                        /\ levels[i] = l
                        /\ \A k \in 1..(i - 1) : levels[k] # l
        eligible == {levels[i] : i \in 1..Len(levels)} \cap (0..bullets_size)
    IN  IF eligible = {} THEN bullets_size + 1
        ELSE CHOOSE l \in eligible :
                 \A o \in eligible \ {l} :
                     \/ count(l) > count(o)
                     \/ count(l) = count(o) /\ first(l) < first(o)

\* title_frequency(bull, sections): <<most_level, levels>>
title_frequency(b, secs) ==
    LET bullets_size == Len(StylePatterns(b))
    IN  IF secs = <<>> \/ b < 0
        THEN <<bullets_size + 1, [i \in 1..Len(secs) |-> bullets_size + 1]>>
        ELSE LET levels == [i \in 1..Len(secs) |-> TitleLevel(b, secs[i])]
             IN  <<MostLevel(levels, bullets_size), levels>>

\* re.sub(r"　", " ", text)
WideSpaceToSpace(t) == [k \in 1..Len(t) |-> IF t[k] = "U3000" THEN " " ELSE t[k]]

\* tree_merge.get_level(bull, section): <<level, text>>
get_level(b, sec) ==
    LET text == Strip(WideSpaceToSpace(sec.text))
        i == FirstPattern(b, Strip(text))
    IN  IF i >= 0 THEN <<i + 1, text>>
        ELSE IF IsTitleLayout(sec.layout) /\ ~not_title(text)
        THEN <<Len(StylePatterns(b)) + 1, text>>
        ELSE <<Len(StylePatterns(b)) + 2, text>>

\* sorted(list(level_set))
SortedLevels(lns) == Ascending({lns[k].level : k \in 1..Len(lns)})

\* the level at index depth - 1, or the last one, as it is
TargetLevelAsFound(sorted_levels, d, b) ==
    IF d <= Len(sorted_levels) THEN sorted_levels[d]
    ELSE sorted_levels[Len(sorted_levels)]

\* the grouping level tree_merge passes to the root; sorted_levels is not
\* empty
target_level(sorted_levels, d, b) ==
    LET n == Len(sorted_levels)
        t == IF d <= n THEN sorted_levels[d] ELSE sorted_levels[n]
    IN  IF t = Len(StylePatterns(b)) + 2
        THEN (IF n > 1 THEN sorted_levels[n - 1] ELSE sorted_levels[1])
        ELSE t

\* root.build_tree(lines): <<nodes, stack>> after the lines from k on
RECURSIVE build_tree(_, _, _, _)
build_tree(ns, st, lns, k) ==
    IF k > Len(lns) THEN <<ns, st>>
    ELSE LET r == build_tree_line(ns, st, lns[k].level, lns[k].text)
         IN  build_tree(r[1], r[2], lns, k + 1)

NonEmpty(t) == t # <<>>

\* the last statements of tree_merge: an exception when no level was
\* collected, otherwise the chunks of the tree
TreeMergeResult(lns, d, b) ==
    IF SortedLevels(lns) = <<>>
    THEN [kind |-> "raised", sections |-> <<>>, chunks |-> <<>>]
    ELSE LET root == Node(0, target_level(SortedLevels(lns), d, b), <<>>)
             built == build_tree(<<root>>, <<1>>, lns, 1)
         IN  [kind |-> "chunks", sections |-> <<>>,
              chunks |-> SelectSeq(get_tree(built[1]), NonEmpty)]

\* the bucket hierarchical_merge puts a section in, from 0
BucketOf(b, sec) ==
    LET bullets_size == Len(StylePatterns(b))
        j == FirstPattern(b, Strip(sec.text))
    IN  IF j >= 0 THEN j
        ELSE IF IsTitleLayout(sec.layout) /\ ~not_title(sec.text)
        THEN bullets_size
        ELSE bullets_size + 1

\* the indices from 0 of the sections with p, in ascending order
IndicesWhere(n, p(_)) == Ascending({i \in 0..(n - 1) : p(i)})

\* levels after the loop of lines 783-792
Buckets(b, secs) ==
    [j \in 1..(Len(StylePatterns(b)) + 2) |->
        LET inBucket(i) == BucketOf(b, secs[i + 1]) = j - 1
        IN  IndicesWhere(Len(secs), inBucket)]

\* what binary_search gives when its assert False is reached: the
\* AssertionError, which no index equals
AssertionRaised == -2

\* binary_search(arr, target): the loop from s, e
RECURSIVE BinarySearchLoop(_, _, _, _)
BinarySearchLoop(arr, target, s, e) ==
    IF e - s > 1
    THEN LET i == (e + s) \div 2
         IN  IF target > arr[i + 1] THEN BinarySearchLoop(arr, target, i, e)
             ELSE IF target < arr[i + 1]
             THEN BinarySearchLoop(arr, target, s, i)
             ELSE AssertionRaised
    ELSE s

\* binary_search(arr, target): the index found, -1 for none, or
\* AssertionRaised
binary_search(arr, target) ==
    IF arr = <<>> THEN -1
    ELSE IF target > arr[Len(arr)] THEN Len(arr) - 1
    ELSE IF target < arr[1] THEN -1
    ELSE BinarySearchLoop(arr, target, 0, Len(arr))

\* for ii in range(i + 1, len(levels)): the group after the buckets from ii
\* on (ii from 0), for the group that j started
\* (the buckets are disjoint and j comes from an earlier bucket, so no bucket
\* holds j and binary_search never raises here)
RECURSIVE AttachEnclosing(_, _, _, _)
AttachEnclosing(group, lv, ii, j) ==
    IF ii >= Len(lv) THEN group
    ELSE LET jj == binary_search(lv[ii + 1], j)
         IN  IF jj < 0 THEN AttachEnclosing(group, lv, ii + 1, j)
             ELSE LET x == lv[ii + 1][jj + 1]
                      g == IF x > group[Len(group)]
                           THEN SubSeq(group, 1, Len(group) - 1)
                           ELSE group
                  IN  AttachEnclosing(Append(g, x), lv, ii + 1, j)

\* for j in arr: <<cks, readed>> after the indices of arr from k on, for
\* bucket i (from 0) of the reversed levels lv
RECURSIVE StartGroups(_, _, _, _, _, _)
StartGroups(groups, rd, lv, i, arr, k) ==
    IF k > Len(arr) THEN <<groups, rd>>
    ELSE LET j == arr[k]
         IN  IF j \in rd THEN StartGroups(groups, rd, lv, i, arr, k + 1)
             ELSE IF i + 1 = Len(lv) - 1
             THEN StartGroups(Append(groups, <<j>>), rd \cup {j}, lv, i, arr,
                              k + 1)
             ELSE LET g == AttachEnclosing(<<j>>, lv, i + 1, j)
                  IN  StartGroups(Append(groups, g),
                                  rd \cup {g[n] : n \in 1..Len(g)}, lv, i,
                                  arr, k + 1)

\* re.sub(r"@@[0-9]+.*", "", s) from position i on: a character goes when
\* "@@" and a digit begin at or before it on its line ("." stops at a
\* newline)
RemoveTagTails(s, i) ==
    LET begins(q) == StartsAt(s, q, <<"@", "@">>) /\ q + 2 <= Len(s)
                     /\ s[q + 2] \in Digits
        goes(k) == \E q \in i..k :
                       /\ begins(q)
                       /\ \A x \in q..k : x >= q + 2 => s[x] # "\n"
        stays(e) == ~goes(e[1])
        placed == [k \in 1..(Len(s) - i + 1) |-> <<k + i - 1, s[k + i - 1]>>]
        left == SelectSeq(placed, stays)
    IN  [k \in 1..Len(left) |-> left[k][2]]

\* a group of one fragment joins the running chunk below this many tokens
SmallChunk == 218

\* the loop of lines 847-858: res after the groups from k on
RECURSIVE SecondPass(_, _, _, _)
SecondPass(out, num, groups, k) ==
    IF k > Len(groups) THEN out
    ELSE LET ck == groups[k]
             n == num_tokens_from_string(RemoveTagTails(ck[1], 1))
         IN  IF Len(ck) = 1
             THEN IF n + num < SmallChunk
                  THEN SecondPass([out EXCEPT ![Len(out)] = Append(@, ck[1])],
                                  num + n, groups, k + 1)
                  ELSE SecondPass(Append(out, ck), n, groups, k + 1)
             ELSE SecondPass(Append(out, ck), SmallChunk, groups, k + 1)

\* The sections passed in: (text, layout) pairs
MaxFragments == 3

FragmentPool ==
    { [text |-> <<Di, "1", Zhang, "a">>, layout |-> <<>>],
      [text |-> <<"0", ".", "5", " ", "a">>, layout |-> <<>>],
      [text |-> <<"a", "b">>, layout |-> <<"t", "i", "t", "l", "e">>],
      [text |-> <<"a", ",", "b">>, layout |-> <<"t", "i", "t", "l", "e">>],
      [text |-> <<"c", "d">>, layout |-> <<>>],
      [text |-> <<"1", "2", "@", "h">>, layout |-> <<>>],
      [text |-> <<"#", " ", "a">>, layout |-> <<>>],
      [text |-> <<"U3000", "#", "#", " ", "b">>, layout |-> <<>>] }

\* the three functions, called one after the other on the same sections

LevelInit ==
    /\ pc = "title_frequency"
    /\ bull \in -1..(Len(BULLET_PATTERN) - 1)
    /\ lv_sections \in SeqsUpTo(FragmentPool, MaxFragments)
    /\ lv_depth \in 1..MaxDepth
    /\ tf_result = <<0, <<>>>>
    /\ kept = <<>>
    /\ lv_i = 0
    /\ tm_lines = <<>>
    /\ tm_result = NotReturned
    /\ hm_levels = <<>>
    /\ hm_cks = <<>>
    /\ hm_result = <<>>
    /\ LevelAlone

TitleFrequency ==
    /\ pc = "title_frequency"
    /\ tf_result' = title_frequency(bull, lv_sections)
    /\ pc' = "tree_merge"
    /\ UNCHANGED <<bull, lv_sections, lv_depth, kept, lv_i, tm_lines,
                   tm_result, hm_levels, hm_cks, hm_result>>
    /\ UNCHANGED notLevelVars

\* the early return of tree_merge, or the pre-filter
TreeMergeEnter ==
    /\ pc = "tree_merge"
    /\ IF lv_sections = <<>> \/ bull < 0
       THEN /\ tm_result' = [kind |-> "sections", sections |-> lv_sections,
                             chunks |-> <<>>]
            /\ pc' = "hierarchical_merge"
            /\ UNCHANGED <<kept, lv_i>>
       ELSE /\ kept' = SelectSeq(lv_sections, KeepsFragment)
            /\ lv_i' = 1
            /\ pc' = "tree_merge_levels"
            /\ UNCHANGED tm_result
    /\ UNCHANGED <<bull, lv_sections, lv_depth, tf_result, tm_lines,
                   hm_levels, hm_cks, hm_result>>
    /\ UNCHANGED notLevelVars

\* for section in sections: the line of one section
TreeMergeLevel ==
    /\ pc = "tree_merge_levels"
    /\ lv_i <= Len(kept)
    /\ LET r == get_level(bull, kept[lv_i])
       IN  tm_lines' = IF StripChar(r[2], "\n") = <<>> THEN tm_lines
                       ELSE Append(tm_lines, [level |-> r[1], text |-> r[2]])
    /\ lv_i' = lv_i + 1
    /\ UNCHANGED <<pc, bull, lv_sections, lv_depth, tf_result, kept,
                   tm_result, hm_levels, hm_cks, hm_result>>
    /\ UNCHANGED notLevelVars

\* the grouping level, the tree and its chunks
TreeMergeBuild ==
    /\ pc = "tree_merge_levels"
    /\ lv_i > Len(kept)
    /\ tm_result' = TreeMergeResult(tm_lines, lv_depth, bull)
    /\ pc' = "hierarchical_merge"
    /\ UNCHANGED <<bull, lv_sections, lv_depth, tf_result, kept, lv_i,
                   tm_lines, hm_levels, hm_cks, hm_result>>
    /\ UNCHANGED notLevelVars

\* the early return of hierarchical_merge, or the pre-filter and the buckets
HierarchicalMergeEnter ==
    /\ pc = "hierarchical_merge"
    /\ IF lv_sections = <<>> \/ bull < 0
       THEN /\ pc' = "done"
            /\ UNCHANGED <<kept, lv_i, hm_levels>>
       ELSE /\ kept' = SelectSeq(lv_sections, KeepsFragment)
            /\ hm_levels' = Buckets(bull, SelectSeq(lv_sections, KeepsFragment))
            /\ lv_i' = 0
            /\ pc' = "hierarchical_groups"
    /\ hm_cks' = <<>>
    /\ hm_result' = <<>>
    /\ UNCHANGED <<bull, lv_sections, lv_depth, tf_result, tm_lines,
                   tm_result>>
    /\ UNCHANGED notLevelVars

\* the indices some group holds
Readed ==
    UNION {{hm_cks[g][n] : n \in 1..Len(hm_cks[g])} : g \in 1..Len(hm_cks)}

\* for i, arr in enumerate(levels[:depth]): the groups of one bucket
HierarchicalGroups ==
    /\ pc = "hierarchical_groups"
    /\ lv_i < lv_depth /\ lv_i < Len(hm_levels)
    /\ hm_cks' = StartGroups(hm_cks, Readed, Reverse(hm_levels), lv_i,
                             Reverse(hm_levels)[lv_i + 1], 1)[1]
    /\ lv_i' = lv_i + 1
    /\ UNCHANGED <<pc, bull, lv_sections, lv_depth, tf_result, kept,
                   tm_lines, tm_result, hm_levels, hm_result>>
    /\ UNCHANGED notLevelVars

\* the texts of the groups in reverse, and the pass that puts groups of one
\* fragment together
HierarchicalMergeReturn ==
    /\ pc = "hierarchical_groups"
    /\ ~(lv_i < lv_depth /\ lv_i < Len(hm_levels))
    /\ hm_result' =
           IF hm_cks = <<>> THEN <<>>
           ELSE SecondPass(<< <<>> >>, 0,
                           [g \in 1..Len(hm_cks) |->
                               [n \in 1..Len(hm_cks[g]) |->
                                   kept[Reverse(hm_cks[g])[n] + 1].text]], 1)
    /\ pc' = "done"
    /\ UNCHANGED <<bull, lv_sections, lv_depth, tf_result, kept, lv_i,
                   tm_lines, tm_result, hm_levels, hm_cks>>
    /\ UNCHANGED notLevelVars

LevelNext ==
    \/ TitleFrequency
    \/ TreeMergeEnter
    \/ TreeMergeLevel
    \/ TreeMergeBuild
    \/ HierarchicalMergeEnter
    \/ HierarchicalGroups
    \/ HierarchicalMergeReturn

SpecLevels == LevelInit /\ [][LevelNext]_vars

\* C14: with style -1 tree_merge and hierarchical_merge both return without
\* raising, and every fragment that was passed in is still in what they
\* return: in the list tree_merge returns and in some group of
\* hierarchical_merge.
C14_NoStyleKeepsFragments ==
    pc = "done" /\ bull = -1 =>
        /\ tm_result.kind = "sections"
        /\ \A k \in 1..Len(lv_sections) :
               /\ \E m \in 1..Len(tm_result.sections) :
                      tm_result.sections[m] = lv_sections[k]
               /\ \E g \in 1..Len(hm_result) : \E n \in 1..Len(hm_result[g]) :
                      hm_result[g][n] = lv_sections[k].text

\* C16: wherever levels are assigned, a fragment gets the level of a
\* numbered pattern only if not_bullet does not reject it: in the levels of
\* title_frequency, in the lines of tree_merge and in the pattern buckets of
\* hierarchical_merge.
C16_RejectedNeverNumbered ==
    bull >= 0 =>
        /\ pc # "title_frequency" =>
               \A k \in 1..Len(lv_sections) :
                   tf_result[2][k] < Len(StylePatterns(bull))
                       => ~not_bullet(lv_sections[k].text)
        /\ \A k \in 1..Len(tm_lines) :
               tm_lines[k].level <= Len(StylePatterns(bull))
                   => ~not_bullet(tm_lines[k].text)
        /\ \A j \in 1..Len(hm_levels) : \A n \in 1..Len(hm_levels[j]) :
               j <= Len(StylePatterns(bull))
                   => ~not_bullet(kept[hm_levels[j][n] + 1].text)

\* C17: tree_merge called with a style and a non-empty list of sections
\* that the pre-filter discards one and all returns the empty list of chunks.
C17_FilteredInputReturnsEmpty ==
    (/\ tm_result.kind # "none"
     /\ bull >= 0
     /\ lv_sections # <<>>
     /\ \A k \in 1..Len(lv_sections) : ~KeepsFragment(lv_sections[k]))
    => tm_result.kind = "chunks" /\ tm_result.chunks = <<>>

---------------------------------------------------------------------------
\* naive_merge and naive_merge_with_images on the same texts, one after the
\* other

\* "\n" + sec for the first n sections, one after the other
RECURSIVE InputsText(_, _)
InputsText(secs, n) ==
    IF n = 0 THEN <<>>
    ELSE InputsText(secs, n - 1) \o <<"\n">> \o secs[n].text

\* C18: in default mode with overlapped_percent = 0 the chunks, put one
\* after the other and with the position tags taken out, are the inputs
\* handled so far in input order, each with a newline in front and each
\* once; at the return these are all the inputs.
C18_ContentAndOrderKept ==
    (/\ pc \in {"default", "done"}
     /\ ~has_custom
     /\ overlapped_percent = 0
     /\ sections # <<>>)
    => /\ remove_tag(Flatten(cks)) = InputsText(sections, sec_i - 1)
       /\ pc = "done" => sec_i - 1 = Len(sections)

\* three inputs returned in two chunks that hold text, one of them with two
\* inputs and one with a position tag
C18_Witness ==
    /\ pc = "done"
    /\ ~has_custom
    /\ overlapped_percent = 0
    /\ Len(sections) = 3
    /\ Len(cks) = 3
    /\ \E k \in 1..Len(cks) : Find(cks[k], TagA) >= 0
    /\ \E k \in 1..Len(cks) : cks[k] # remove_tag(cks[k])
    /\ remove_tag(Flatten(cks)) = InputsText(sections, 3)

BothInit ==
    /\ pc = "naive_merge"
    /\ sections \in SeqsUpTo(SectionPool, MaxSections)
    /\ chunk_token_num \in ChunkTokenNums
    /\ delimiter \in DelimiterPool
    /\ overlapped_percent \in OverlappedPercents
    /\ cks = <<>>
    /\ tk_nums = <<>>
    /\ sec_i = 0
    /\ wi_texts = sections
    /\ wi_images \in ImageLists(Len(sections))
    /\ wi_chunk_token_num = chunk_token_num
    /\ wi_delimiter = delimiter
    /\ wi_overlapped_percent = overlapped_percent
    /\ wi_cks = <<>>
    /\ wi_result_images = <<>>
    /\ wi_tk_nums = <<>>
    /\ wi_i = 0
    /\ TreeIdle /\ CtxIdle /\ BulletIdle /\ ImgIdle /\ TagIdle /\ LevelIdle /\ HierIdle

\* the caller goes on to naive_merge_with_images
CallWithImages ==
    /\ pc = "done"
    /\ wi_i = 0
    /\ pc' = "naive_merge_with_images"
    /\ UNCHANGED <<mergeVars, withImagesVars>>
    /\ UNCHANGED <<treeVars, ctxVars, bulletVars, imgVars, tagVars, levelVars, hierVars>>

BothNext ==
    \/ MergeNext
    \/ CallWithImages
    \/ WithImagesNext

SpecBothMerges == BothInit /\ [][BothNext]_vars

\* one call of add_chunk(t, ...) that took the chunk list cs with token
\* counts tks to cs2, as the statement has it
AddChunkAsStated(cs, tks, cs2, t, ctn, p) ==
    LET last == cs[Len(cs)]
        over == last = <<>> \/ tks[Len(tks)] * 100 > ctn * (100 - p)
        prev == remove_tag(last)
        offset == (Len(prev) * (100 - p)) \div 100
        carry == SubSeq(prev, offset + 1, Len(prev))
    IN  /\ Len(cs2) = (IF over THEN Len(cs) + 1 ELSE Len(cs))
        /\ SubSeq(cs2, 1, Len(cs) - 1) = SubSeq(cs, 1, Len(cs) - 1)
        /\ over => /\ cs2[Len(cs)] = last
                   /\ IsPrefix(carry \o t, cs2[Len(cs2)])
                   /\ Len(carry) = (Len(prev) * p + 99) \div 100
                   /\ p = 0 => carry = <<>>
        /\ ~over => IsPrefix(last \o t, cs2[Len(cs2)])

\* C19: in default mode every call of add_chunk, in naive_merge and in
\* naive_merge_with_images, opens a new chunk exactly when the running
\* chunk is empty or its token count is above
\* chunk_token_num*(100-overlapped_percent)/100, and otherwise extends the
\* running chunk; a new chunk begins with the suffix of the previous chunk's
\* de-tagged text from offset floor(len*(100-overlapped_percent)/100), which
\* is overlapped_percent percent of it rounded up and empty for 0, followed
\* by the new text.
C19_OpensChunkOverBudget ==
    [][/\ (pc = "default" /\ sec_i' = sec_i + 1)
           => AddChunkAsStated(cks, tk_nums, cks',
                               <<"\n">> \o sections[sec_i].text,
                               chunk_token_num, overlapped_percent)
       /\ (pc = "with_images_default" /\ wi_i' = wi_i + 1)
           => AddChunkAsStated(wi_cks, wi_tk_nums, wi_cks',
                               <<"\n">> \o wi_texts[wi_i].text,
                               wi_chunk_token_num, wi_overlapped_percent)]_vars

\* both functions have returned three chunks for three texts: one text was
\* added to the running chunk and the last chunk begins with a carry-over
C19_Witness ==
    /\ pc = "done"
    /\ wi_i > Len(wi_texts)
    /\ ~has_custom
    /\ overlapped_percent > 0
    /\ Len(sections) = 3
    /\ Len(cks) = 3
    /\ cks[3][1] # "\n"
    /\ Len(wi_cks) = 3
    /\ wi_cks[3][1] # "\n"

---------------------------------------------------------------------------
\* The shape of the tree build_tree makes

\* the nodes that have n among their children
ParentsOf(n) ==
    {q \in 1..Len(nodes) :
        \E k \in 1..Len(nodes[q].children) : nodes[q].children[k] = n}

\* the stack holds levels that grow strictly from the root up, and every
\* node but the root has one parent, of a smaller level, and a level of at
\* most depth
TreeShape ==
    /\ stack # <<>> /\ stack[1] = 1
    /\ \A k \in 1..(Len(stack) - 1) :
           nodes[stack[k]].level < nodes[stack[k + 1]].level
    /\ \A n \in 2..Len(nodes) :
           /\ Cardinality(ParentsOf(n)) = 1
           /\ \A q \in ParentsOf(n) : nodes[q].level < nodes[n].level
           /\ nodes[n].level <= depth

\* a step of build_tree for a line beyond depth makes no node, leaves the
\* stack as it is and appends the text to the texts of the node on top
FoldsBeyondDepth ==
    (/\ pc = "build_tree"
     /\ line_i' = line_i + 1
     /\ lines[line_i].level > depth)
    => /\ stack' = stack
       /\ nodes' = [nodes EXCEPT ![stack[Len(stack)]].texts =
                                     Append(@, lines[line_i].text)]

\* C20: while build_tree runs over lines of levels >= 1 under a root with
\* depth limit d, and afterwards, the stack holds nodes of strictly
\* increasing level from bottom to top and every node but the root has a
\* level above its parent's and at most d; a line of a level above d makes
\* no node: its text is appended to the texts of the node on top of the
\* stack.
C20_StackAndTreeLevels == []TreeShape /\ [][FoldsBeyondDepth]_vars

\* a tree of four lines under depth 2: a line of level 3 was folded into a
\* heading, and a later heading popped the stack back to the root
C20_Witness ==
    /\ pc = "done"
    /\ depth = 2
    /\ Len(lines) = 4
    /\ \E k \in 1..Len(lines) : lines[k].level > depth
    /\ \E n \in 2..Len(nodes) : Len(nodes[n].texts) >= 2
    /\ Len(nodes[1].children) >= 2
    /\ \E n \in 2..Len(nodes) : nodes[n].children # <<>>

---------------------------------------------------------------------------
\* tree_merge step by step: the levels, the root, the tree, the chunks

MaxOutline == 3

\* fragments of an outline in style 0: a chapter, a section, a line that the
\* layout marks as a title, and a body line
OutlinePool ==
    { [text |-> <<Di, "1", Zhang, "a">>, layout |-> <<>>],
      [text |-> <<Di, "1", Jie, "b">>, layout |-> <<>>],
      [text |-> <<"a", "b">>, layout |-> <<"t", "i", "t", "l", "e">>],
      [text |-> <<"c", "d">>, layout |-> <<>>] }

OutlineStyles == {-1, 0}

TreeMergeInit ==
    /\ pc = "tree_merge"
    /\ bull \in OutlineStyles
    /\ lv_sections \in SeqsUpTo(OutlinePool, MaxOutline)
    /\ lv_depth \in 1..MaxDepth
    /\ tf_result = <<0, <<>>>>
    /\ kept = <<>>
    /\ lv_i = 0
    /\ tm_lines = <<>>
    /\ tm_result = NotReturned
    /\ hm_levels = <<>>
    /\ hm_cks = <<>>
    /\ hm_result = <<>>
    /\ LevelAlone

\* sorted_levels, target_level and the root, or the exception that
\* sorted_levels[-1] raises on an empty list
TreeMergeRoot ==
    /\ pc = "tree_merge_levels"
    /\ lv_i > Len(kept)
    /\ IF SortedLevels(tm_lines) = <<>>
       THEN /\ tm_result' = [kind |-> "raised", sections |-> <<>>,
                             chunks |-> <<>>]
            /\ pc' = "hierarchical_merge"
            /\ UNCHANGED treeVars
       ELSE /\ depth' = target_level(SortedLevels(tm_lines), lv_depth, bull)
            /\ nodes' = <<Node(0, depth', <<>>)>>
            /\ stack' = <<1>>
            /\ lines' = tm_lines
            /\ line_i' = 1
            /\ pc' = "build_tree"
            /\ UNCHANGED <<tree_list, tm_result>>
    /\ UNCHANGED <<bull, lv_sections, lv_depth, tf_result, kept, lv_i,
                   tm_lines, hm_levels, hm_cks, hm_result>>
    /\ UNCHANGED <<mergeVars, ctxVars, bulletVars, imgVars, tagVars,
                   withImagesVars, hierVars>>

\* return [element for element in root.get_tree() if element]
TreeMergeReturn ==
    /\ pc = "done"
    /\ tm_result = NotReturned
    /\ tm_result' = [kind |-> "chunks", sections |-> <<>>,
                     chunks |-> SelectSeq(tree_list, NonEmpty)]
    /\ pc' = "returned"
    /\ UNCHANGED <<bull, lv_sections, lv_depth, tf_result, kept, lv_i,
                   tm_lines, hm_levels, hm_cks, hm_result>>
    /\ UNCHANGED notLevelVars

TreeMergeNext ==
    \/ TreeMergeEnter
    \/ TreeMergeLevel
    \/ TreeMergeRoot
    \/ BuildTreeStep
    \/ BuildTreeReturn
    \/ GetTree
    \/ TreeMergeReturn

SpecTreeMerge == TreeMergeInit /\ [][TreeMergeNext]_vars

\* the levels of the kept fragments
LevelsPresent == {tm_lines[k].level : k \in 1..Len(tm_lines)}

\* the level of the plain body
BodyLevel == Len(StylePatterns(bull)) + 2

\* the n-th smallest level present
NthLevel(n) ==
    CHOOSE l \in LevelsPresent :
        Cardinality({x \in LevelsPresent : x < l}) = n - 1

\* the lv_depth-th smallest level present, the largest when there are fewer
ResolvedLevel ==
    IF lv_depth <= Cardinality(LevelsPresent) THEN NthLevel(lv_depth)
    ELSE NthLevel(Cardinality(LevelsPresent))

\* C21: the grouping level tree_merge gives the root is the depth-th
\* smallest level present among the kept fragments, the largest level
\* present when depth exceeds their number; when that level is the level of
\* the plain body and a shallower level is present, it is the largest level
\* present below the plain body instead, so the plain body is the grouping
\* level only when it is the only level present.
C21_GroupingLevel ==
    pc \in {"build_tree", "get_tree", "done", "returned"} =>
        /\ depth = IF ResolvedLevel = BodyLevel
                      /\ Cardinality(LevelsPresent) > 1
                   THEN CHOOSE l \in LevelsPresent \ {BodyLevel} :
                            \A x \in LevelsPresent \ {BodyLevel} : x <= l
                   ELSE ResolvedLevel
        /\ depth = BodyLevel => LevelsPresent = {BodyLevel}
        /\ nodes[1].depth = depth

\* depth 3 over a chapter and body lines: the largest level present is the
\* plain body, and the grouping level is the chapter's
C21_Witness ==
    /\ pc = "build_tree"
    /\ lv_depth = 3
    /\ Cardinality(LevelsPresent) = 2
    /\ BodyLevel \in LevelsPresent
    /\ depth < BodyLevel
    /\ Len(tm_lines) = 3

---------------------------------------------------------------------------
\* The order and the contents of the chunks of get_tree

\* the nodes in depth-first pre-order, children in the order they were added
RECURSIVE PreOrder(_)
PreOrder(n) ==
    <<n>> \o Flatten([k \in 1..Len(nodes[n].children) |->
                         PreOrder(nodes[n].children[k])])

\* the texts of the ancestors of n that are within depth, from the top
\* down, followed by those of n
RECURSIVE TitlePath(_)
TitlePath(n) ==
    IF n = 1 THEN <<>>
    ELSE TitlePath(CHOOSE q \in ParentsOf(n) : TRUE)
         \o (IF 1 <= nodes[n].level /\ nodes[n].level <= depth
             THEN nodes[n].texts ELSE <<>>)

\* the root with texts, and the childless nodes within depth
EmitsChunk(n) ==
    \/ n = 1 /\ nodes[1].texts # <<>>
    \/ /\ n > 1
       /\ nodes[n].children = <<>>
       /\ 1 <= nodes[n].level /\ nodes[n].level <= depth

ChunkOfNode(n) ==
    IF n = 1 THEN Join(nodes[1].texts, <<"\n">>)
    ELSE Join(TitlePath(n), <<"\n">>)

\* C22: get_tree gives the chunks in depth-first pre-order, children in the
\* order they were added: one chunk for the root when it holds texts, before
\* the chunks of its children, and one chunk for every childless node of a
\* level within 1..depth, which is exactly its title path: the texts of its
\* ancestors within depth followed by its own texts; no node gives more than
\* one chunk, and a heading with no body still gives its chunk.
C22_PreOrderTitlePaths ==
    pc = "done" =>
        LET emitting == SelectSeq(PreOrder(1), EmitsChunk)
        IN  /\ tree_list = [k \in 1..Len(emitting) |-> ChunkOfNode(emitting[k])]
            /\ Len(tree_list) <= Len(nodes)

\* a tree whose root holds a line, with a heading that has two children, one
\* of them a heading with no body
C22_Witness ==
    /\ pc = "done"
    /\ depth >= 2
    /\ nodes[1].texts # <<>>
    /\ \E n \in 2..Len(nodes) : Len(nodes[n].children) = 2
    /\ \E n \in 2..Len(nodes) :
           /\ nodes[n].children = <<>>
           /\ Len(nodes[n].texts) = 1
           /\ nodes[n].level = 2
    /\ Len(tree_list) = 3

---------------------------------------------------------------------------
\* hierarchical_merge step by step: one step per index of a bucket, one per
\* group in the second pass

\* the longest input of groups, and the longest input with a long body line
MaxGrouped == 4
MaxSingles == 3

\* a body line of 216 characters
LongBody == [k \in 1..(SmallChunk - 2) |-> IF k = 1 THEN "e" ELSE "f"]

GroupedPool ==
    OutlinePool \cup {[text |-> LongBody, layout |-> <<>>]}

\* hierarchical_merge is called with style 0 on the sections secs
HierarchicalCall(secs) ==
    /\ pc = "hierarchical_merge"
    /\ bull = 0
    /\ lv_sections = secs
    /\ lv_depth \in 1..MaxDepth
    /\ tf_result = <<0, <<>>>>
    /\ kept = <<>>
    /\ lv_i = 0
    /\ tm_lines = <<>>
    /\ tm_result = NotReturned
    /\ hm_levels = <<>>
    /\ hm_cks = <<>>
    /\ hm_result = <<>>
    /\ LevelAlone

GroupsInit ==
    \E secs \in SeqsUpTo(OutlinePool, MaxGrouped) : HierarchicalCall(secs)

HierarchicalInit ==
    \E secs \in SeqsUpTo(GroupedPool, MaxSingles) : HierarchicalCall(secs)

\* the buckets in the order they were filled, the first pattern first
LevelsAsBucketed == hm_levels

\* levels = levels[::-1]: the bucket of the plain body first
ReversedLevels == Reverse(hm_levels)

\* levels[:depth] still has a bucket at lv_i
InBuckets == lv_i < lv_depth /\ lv_i < Len(hm_levels)

\* for j in arr: the body of the loop for the index at hi_k
HierarchicalGroup ==
    /\ pc = "hierarchical_groups"
    /\ InBuckets
    /\ hi_k < Len(ReversedLevels[lv_i + 1])
    /\ hm_cks' = StartGroups(hm_cks, Readed, ReversedLevels, lv_i,
                             <<ReversedLevels[lv_i + 1][hi_k + 1]>>, 1)[1]
    /\ hi_k' = hi_k + 1
    /\ UNCHANGED <<pc, bull, lv_sections, lv_depth, tf_result, kept, lv_i,
                   tm_lines, tm_result, hm_levels, hm_result>>
    /\ UNCHANGED <<hi_texts, hi_res, hi_num, hi_g>>
    /\ UNCHANGED <<mergeVars, treeVars, ctxVars, bulletVars, imgVars,
                   tagVars, withImagesVars>>

\* for i, arr in enumerate(levels[:depth]): the next bucket
HierarchicalNextBucket ==
    /\ pc = "hierarchical_groups"
    /\ InBuckets
    /\ hi_k >= Len(ReversedLevels[lv_i + 1])
    /\ lv_i' = lv_i + 1
    /\ hi_k' = 0
    /\ UNCHANGED <<pc, bull, lv_sections, lv_depth, tf_result, kept,
                   tm_lines, tm_result, hm_levels, hm_cks, hm_result>>
    /\ UNCHANGED <<hi_texts, hi_res, hi_num, hi_g>>
    /\ UNCHANGED <<mergeVars, treeVars, ctxVars, bulletVars, imgVars,
                   tagVars, withImagesVars>>

\* if not cks: return cks; otherwise the texts of each group, reversed, and
\* res = [[]], num = [0]
HierarchicalTexts ==
    /\ pc = "hierarchical_groups"
    /\ ~InBuckets
    /\ IF hm_cks = <<>>
       THEN /\ pc' = "done"
            /\ UNCHANGED <<hi_texts, hi_res, hi_num>>
       ELSE /\ hi_texts' = [g \in 1..Len(hm_cks) |->
                               [n \in 1..Len(hm_cks[g]) |->
                                   kept[Reverse(hm_cks[g])[n] + 1].text]]
            /\ hi_res' = << <<>> >>
            /\ hi_num' = <<0>>
            /\ pc' = "hierarchical_second"
    /\ UNCHANGED <<bull, lv_sections, lv_depth, tf_result, kept, lv_i,
                   tm_lines, tm_result, hm_levels, hm_cks, hm_result>>
    /\ UNCHANGED <<hi_k, hi_g>>
    /\ UNCHANGED <<mergeVars, treeVars, ctxVars, bulletVars, imgVars,
                   tagVars, withImagesVars>>

\* for ck in cks: the body of the loop of lines 847-858 for one group
HierarchicalSecond ==
    /\ pc = "hierarchical_second"
    /\ hi_g < Len(hi_texts)
    /\ LET ck == hi_texts[hi_g + 1]
           n == num_tokens_from_string(RemoveTagTails(ck[1], 1))
       IN  IF Len(ck) = 1
           THEN IF n + hi_num[Len(hi_num)] < SmallChunk
                THEN /\ hi_res' = [hi_res EXCEPT ![Len(hi_res)] =
                                                     Append(@, ck[1])]
                     /\ hi_num' = [hi_num EXCEPT ![Len(hi_num)] = @ + n]
                ELSE /\ hi_res' = Append(hi_res, ck)
                     /\ hi_num' = Append(hi_num, n)
           ELSE /\ hi_res' = Append(hi_res, ck)
                /\ hi_num' = Append(hi_num, SmallChunk)
    /\ hi_g' = hi_g + 1
    /\ UNCHANGED <<pc, hi_k, hi_texts>>
    /\ UNCHANGED levelVars
    /\ UNCHANGED <<mergeVars, treeVars, ctxVars, bulletVars, imgVars,
                   tagVars, withImagesVars>>

\* return res
HierarchicalReturn ==
    /\ pc = "hierarchical_second"
    /\ hi_g >= Len(hi_texts)
    /\ hm_result' = hi_res
    /\ pc' = "done"
    /\ UNCHANGED <<bull, lv_sections, lv_depth, tf_result, kept, lv_i,
                   tm_lines, tm_result, hm_levels, hm_cks>>
    /\ UNCHANGED hierVars
    /\ UNCHANGED <<mergeVars, treeVars, ctxVars, bulletVars, imgVars,
                   tagVars, withImagesVars>>

HierarchicalNext ==
    \/ HierarchicalMergeEnter
    \/ HierarchicalGroup
    \/ HierarchicalNextBucket
    \/ HierarchicalTexts
    \/ HierarchicalSecond
    \/ HierarchicalReturn

SpecGroups == GroupsInit /\ [][HierarchicalNext]_vars

SpecHierarchical == HierarchicalInit /\ [][HierarchicalNext]_vars

\* the result agrees with the loops taken whole
HierarchicalAsWhole ==
    pc = "done" /\ lv_sections # <<>> =>
        hm_result =
           IF hm_cks = <<>> THEN <<>>
           ELSE SecondPass(<< <<>> >>, 0,
                           [g \in 1..Len(hm_cks) |->
                               [n \in 1..Len(hm_cks[g]) |->
                                   kept[Reverse(hm_cks[g])[n] + 1].text]], 1)

---------------------------------------------------------------------------
\* Claims about the groups of hierarchical_merge

\* C23: the fragments of every group of hierarchical_merge come out in
\* strictly ascending order of their index in the input: the index list of a
\* group, reversed, is strictly ascending after every fragment that started
\* or completed a group.
C23_GroupsAscending ==
    \A g \in 1..Len(hm_cks) :
        \A n \in 1..(Len(hm_cks[g]) - 1) :
            Reverse(hm_cks[g])[n] < Reverse(hm_cks[g])[n + 1]

\* the group of a starter as C24 states it: in every later bucket the largest
\* index up to the last index of the group is looked up, and appended when
\* it is found and no earlier group holds it
RECURSIVE AttachUnread(_, _, _, _)
AttachUnread(group, lv, ii, rd) ==
    IF ii >= Len(lv) THEN group
    ELSE LET jj == binary_search(lv[ii + 1], group[Len(group)])
         IN  IF jj < 0 \/ lv[ii + 1][jj + 1] \in rd
             THEN AttachUnread(group, lv, ii + 1, rd)
             ELSE AttachUnread(Append(group, lv[ii + 1][jj + 1]), lv, ii + 1,
                               rd)

\* C24: a fragment found by the lookup is appended to a group only if no
\* earlier group has consumed it, the lookup being for the last index of the
\* group as it stands; so a new group holds no index that an earlier group
\* holds, and no index is in two groups.
C24_AttachesUnreadOnly ==
    [][Len(hm_cks') > Len(hm_cks) =>
          LET new == hm_cks'[Len(hm_cks')]
          IN  /\ \A n \in 1..Len(new) : new[n] \notin Readed
              /\ lv_i + 1 # Len(hm_levels) - 1 =>
                     new = AttachUnread(<<new[1]>>, Reverse(hm_levels),
                                        lv_i + 1, Readed)]_vars

\* the bucket that holds index x, from 0: 0 is the first pattern of the
\* style, the last one the plain body
BucketHolding(x) ==
    CHOOSE b \in 0..(Len(hm_levels) - 1) :
        \E n \in 1..Len(hm_levels[b + 1]) : hm_levels[b + 1][n] = x

\* the indices of the groups before group g
ReadBefore(g) ==
    UNION {{hm_cks[h][n] : n \in 1..Len(hm_cks[h])} : h \in 1..(g - 1)}

\* C25 as stated: a group is started only by a fragment that no earlier
\* group holds and that is in one of the lv_depth shallowest buckets, the
\* shallowest bucket first, and the fragments attached to it come from
\* buckets deeper than its starter's.
C25_StartedByShallowest ==
    \A g \in 1..Len(hm_cks) :
        /\ hm_cks[g][1] \notin ReadBefore(g)
        /\ BucketHolding(hm_cks[g][1]) < lv_depth
        /\ \A h \in 1..(g - 1) :
               BucketHolding(hm_cks[h][1]) <= BucketHolding(hm_cks[g][1])
        /\ \A n \in 2..Len(hm_cks[g]) :
               BucketHolding(hm_cks[g][n]) > BucketHolding(hm_cks[g][1])

\* C25: a group is started only by a fragment that no earlier group holds
\* and that is in one of the lv_depth deepest buckets, the deepest bucket
\* (the plain body) first, and the fragments attached to it come from
\* buckets shallower than its starter's.
C25_StartedByDeepest ==
    \A g \in 1..Len(hm_cks) :
        /\ hm_cks[g][1] \notin ReadBefore(g)
        /\ BucketHolding(hm_cks[g][1]) >= Len(hm_levels) - lv_depth
        /\ \A h \in 1..(g - 1) :
               BucketHolding(hm_cks[h][1]) >= BucketHolding(hm_cks[g][1])
        /\ \A n \in 2..Len(hm_cks[g]) :
               BucketHolding(hm_cks[g][n]) < BucketHolding(hm_cks[g][1])

\* two groups: a body line with the title before it, then a later title that
\* no group held; the first title starts no group
C25_Witness ==
    /\ pc = "done"
    /\ lv_depth >= 2
    /\ Len(hm_cks) = 2
    /\ Len(hm_cks[1]) >= 2
    /\ BucketHolding(hm_cks[1][1]) = Len(hm_levels) - 1
    /\ BucketHolding(hm_cks[2][1]) = Len(hm_levels) - 2
    /\ BucketHolding(hm_cks[1][2]) = Len(hm_levels) - 2

---------------------------------------------------------------------------
\* Claims about the second pass of hierarchical_merge

\* the tokens the second pass counts for a group of one fragment
SingleTokens(g) == num_tokens_from_string(RemoveTagTails(hi_texts[g][1], 1))

RECURSIVE SumTokens(_, _)
SumTokens(from, to) ==
    IF from > to THEN 0 ELSE SingleTokens(from) + SumTokens(from + 1, to)

\* the chunk c of the result is the run of groups from..to: one group of
\* several fragments, or groups of one fragment each, of fewer than
\* SmallChunk tokens together when there are two or more
IsRun(c, from, to) ==
    /\ from <= to
    /\ \/ /\ from = to
          /\ Len(hi_texts[from]) > 1
          /\ hm_result[c] = hi_texts[from]
       \/ /\ \A g \in from..to : Len(hi_texts[g]) = 1
          /\ hm_result[c] = [k \in 1..(to - from + 1) |->
                                hi_texts[from + k - 1][1]]
          /\ to > from => SumTokens(from, to) < SmallChunk

\* C26: every chunk that the second pass returns is either exactly one group
\* of several fragments or a non-empty run of consecutive groups of one
\* fragment, and a run of two or more has fewer than 218 tokens in all: the
\* groups, cut into consecutive runs, are the chunks in order.
C26_ChunksAreRuns ==
    pc = "done" /\ hm_cks # <<>> =>
        \E starts \in SUBSET (1..Len(hi_texts)) :
            /\ 1 \in starts
            /\ Cardinality(starts) = Len(hm_result)
            /\ LET first(c) == CHOOSE x \in starts :
                                   Cardinality({y \in starts : y < x}) = c - 1
                   last(c) == IF c = Len(hm_result) THEN Len(hi_texts)
                              ELSE first(c + 1) - 1
               IN  \A c \in 1..Len(hm_result) : IsRun(c, first(c), last(c))

\* the same, but for an empty first chunk
ChunksAreRunsAfterFirst ==
    pc = "done" /\ hm_cks # <<>> /\ hm_result[1] = <<>> =>
        \E starts \in SUBSET (1..Len(hi_texts)) :
            /\ 1 \in starts
            /\ Cardinality(starts) = Len(hm_result) - 1
            /\ LET first(c) == CHOOSE x \in starts :
                                   Cardinality({y \in starts : y < x}) = c - 1
                   last(c) == IF c = Len(hm_result) - 1 THEN Len(hi_texts)
                              ELSE first(c + 1) - 1
               IN  \A c \in 1..(Len(hm_result) - 1) :
                       IsRun(c + 1, first(c), last(c))

---------------------------------------------------------------------------
\* The text an image/table chunk is given

\* the texts of the text chunks met from sorted position p on in direction
\* step, up to the first chunk that is not a text chunk; chunks without text
\* give nothing
RECURSIVE NeighbourTexts(_, _)
NeighbourTexts(p, step) ==
    IF p < 1 \/ p > Len(ordered_indices) THEN <<>>
    ELSE IF ~is_text_chunk(chunks[ordered_indices[p]]) THEN <<>>
    ELSE (IF get_text(chunks[ordered_indices[p]]) = <<>> THEN <<>>
          ELSE <<get_text(chunks[ordered_indices[p]])>>)
         \o NeighbourTexts(p + step, step)

\* the whole sentences of t taken from its end, and from its start
SentenceTails(t) ==
    {Flatten(SubSeq(split_sentences(t), k, Len(split_sentences(t)))) :
        k \in 1..Len(split_sentences(t))}
SentenceHeads(t) ==
    {Flatten(SubSeq(split_sentences(t), 1, k)) :
        k \in 1..Len(split_sentences(t))}

\* C27: when an image/table chunk gains context, its new text is the
\* backward pieces in position order, then its own text (when it has any),
\* then the forward pieces in position order, joined by newlines; the
\* backward pieces are whole sentences from the end of the nearest text
\* chunks before it, the forward pieces whole sentences from the start of
\* the nearest text chunks after it.
C27_ContextAroundOwnText ==
    [][(/\ pc = "attach_loop"
        /\ sorted_pos' = sorted_pos + 1
        /\ chunks' # chunks)
       => LET idx == ordered_indices[sorted_pos]
              own == get_text(chunks[idx])
              before == NeighbourTexts(sorted_pos - 1, -1)
              after == NeighbourTexts(sorted_pos + 1, 1)
          IN  /\ IsMedia(chunks[idx])
              /\ get_text(chunks'[idx]) =
                     Join(prev_ctx'
                          \o (IF own = <<>> THEN <<>> ELSE <<own>>)
                          \o next_ctx', <<"\n">>)
              /\ Len(prev_ctx') <= Len(before)
              /\ \A k \in 1..Len(prev_ctx') :
                     Reverse(prev_ctx')[k] \in SentenceTails(before[k])
              /\ Len(next_ctx') <= Len(after)
              /\ \A k \in 1..Len(next_ctx') :
                     next_ctx'[k] \in SentenceHeads(after[k])
              /\ \A j \in 1..Len(chunks) : j # idx => chunks'[j] = chunks[j]]_vars

\* a table between two text chunks of two sentences each, with a budget of
\* one token: it has gained the last sentence of the one and the first
\* sentence of the other
C27_Witness ==
    /\ pc = "attach_loop"
    /\ sorted_pos = 3
    /\ table_context_size = 1
    /\ is_table_chunk(chunks[ordered_indices[2]])
    /\ Len(prev_ctx) = 1 /\ Len(prev_ctx[1]) = 2
    /\ Len(next_ctx) = 1 /\ Len(next_ctx[1]) = 2
    /\ prev_ctx[1] # get_text(chunks[ordered_indices[1]])
    /\ next_ctx[1] # get_text(chunks[ordered_indices[3]])
    /\ get_text(chunks[ordered_indices[2]]) =
           prev_ctx[1] \o <<"\n">>
           \o get_text(chunks0[ordered_indices[2]])
           \o <<"\n">> \o next_ctx[1]

---------------------------------------------------------------------------
\* The texts of the fragments in the chunks of tree_merge

\* the node that holds line k: the node of the last line up to k that is
\* within depth, the root when there is none
HolderOf(k) == 1 + Cardinality({i \in 1..k : lines[i].level <= depth})

\* n and the nodes above it
RECURSIVE UpTo(_)
UpTo(n) ==
    IF n = 1 THEN {1} ELSE {n} \cup UpTo(CHOOSE q \in ParentsOf(n) : TRUE)

\* the texts of the lines of S in document order, joined by newlines
LinesJoined(S) ==
    Join([k \in 1..Cardinality(S) |-> lines[Ascending(S)[k]].text], <<"\n">>)

\* C28: tree_merge loses no text: the chunks it returns are one chunk per
\* leaf node, made of the texts of the fragments held by the leaf and by the
\* nodes above it, in document order, preceded by one chunk of the fragments
\* that come before the first heading when there are any; so the text of
\* every kept fragment is in the root's chunk or in the chunk of every leaf
\* at or below the node that holds it, and every node has such a leaf.
C28_NoTextLost ==
    pc = "returned" =>
        LET emitting == SelectSeq(PreOrder(1), EmitsChunk)
            held(c) == {k \in 1..Len(lines) :
                           IF emitting[c] = 1 THEN HolderOf(k) = 1
                           ELSE HolderOf(k) \in UpTo(emitting[c]) \ {1}}
        IN  /\ Len(tm_result.chunks) = Len(emitting)
            /\ \A c \in 1..Len(emitting) :
                   tm_result.chunks[c] = LinesJoined(held(c))
            /\ \A k \in 1..Len(lines) :
                   \E c \in 1..Len(emitting) : k \in held(c)
            /\ lines = tm_lines
            /\ Len(lines) = Len(kept)

\* a body line before the first chapter and one after it, under depth 1: the
\* root's chunk, and the chunk of the chapter with its body line
C28_Witness ==
    /\ pc = "returned"
    /\ Len(lines) = 3
    /\ nodes[1].texts # <<>>
    /\ Len(nodes) = 2
    /\ Len(nodes[2].texts) = 2
    /\ Len(tm_result.chunks) = 2
    /\ tm_result.chunks[2] = lines[2].text \o <<"\n">> \o lines[3].text

---------------------------------------------------------------------------
\* What attach_media_context rewrites

\* the returned list holds the input chunks, each once, and every chunk
\* that was passed in as a text chunk is returned as it was
TextChunksUntouched ==
    pc = "done" =>
        /\ Len(chunks) = Len(chunks0)
        /\ \A i \in 1..Len(chunks0) :
               is_text_chunk(chunks0[i]) => FinalChunk(i) = chunks0[i]

\* the context a step attaches is the one the scans collect over the chunks
\* as they were passed in
ContextFromOriginals ==
    pc = "attach_loop" /\ sorted_pos' = sorted_pos + 1 =>
        LET ck == chunks0[ordered_indices[sorted_pos]]
            token_budget == TokenBudget(ck, table_context_size, image_context_size)
        IN  token_budget > 0 =>
                /\ prev_ctx' = Reverse(Scan(chunks0, ordered_indices,
                                            sorted_pos - 1, -1, token_budget))
                /\ next_ctx' = Scan(chunks0, ordered_indices, sorted_pos + 1, 1,
                                    token_budget)

\* C29: attach_media_context only rewrites image/table chunks: the returned
\* list is a permutation of the input chunks, every text-only chunk keeps
\* its text and token fields, and the context attached to an image/table
\* chunk is always drawn from the text its text neighbours had when they
\* were passed in, whatever was attached to other image/table chunks before.
C29_OnlyMediaRewritten ==
    /\ []TextChunksUntouched
    /\ [][ContextFromOriginals]_vars

---------------------------------------------------------------------------
\* Empty elements in the returned lists

\* C30: for every non-empty input, the list naive_merge returns in default
\* mode holds no empty string, the chunk list naive_merge_with_images
\* returns in default mode holds no empty string, and the list
\* hierarchical_merge returns holds no empty group.
C30_NoEmptyElement ==
    pc = "done" =>
        /\ sections # <<>> /\ ~has_custom =>
               \A k \in 1..Len(cks) : cks[k] # <<>>
        /\ wi_i > 0 /\ wi_texts # <<>> /\ custom_delimiters(wi_delimiter) = {} =>
               \A k \in 1..Len(wi_cks) : wi_cks[k] # <<>>
        /\ lv_sections # <<>> =>
               \A k \in 1..Len(hm_result) : hm_result[k] # <<>>

====
